---- MODULE Spec2Model ----
(***************************************************************************)
(* Model of the SOV parser: the dual-agent path (app/parser/sov_parser_ai) *)
(* with its consensus merge and metadata inheritance, and the heuristic    *)
(* path (app/parser/sov_parser).                                           *)
(*                                                                         *)
(* Python values are modelled as tagged records: None, str (a sequence of  *)
(* one-character strings), int, and float (fixed point, in hundredths).    *)
(* Numeric strings with an exponent, "inf"/"nan", digit-group underscores  *)
(* or more than two fractional digits are outside the modelled inputs.     *)
(***************************************************************************)
EXTENDS Integers, Sequences, FiniteSets, TLC

\* ---------------------------------------------------------------------
\* Python values
\* ---------------------------------------------------------------------
None == [k |-> "none"]
StrV(s) == [k |-> "str", s |-> s]
IntV(n) == [k |-> "int", n |-> n]
FloatV(c) == [k |-> "float", c |-> c]

IsNone(v) == v.k = "none"

\* "" and "null", the two placeholders the code compares against
EmptyStr == StrV(<< >>)
NullStr == StrV(<<"n", "u", "l", "l">>)

\* Python truthiness of a value (None, "", 0 and 0.0 are falsy)
Truthy(v) ==
    CASE v.k = "none" -> FALSE
      [] v.k = "str" -> Len(v.s) > 0
      [] v.k = "int" -> v.n # 0
      [] v.k = "float" -> v.c # 0

\* ---------------------------------------------------------------------
\* Characters and strings
\* ---------------------------------------------------------------------
UpperSeq == <<"A", "B", "C", "D", "E", "F", "G", "H", "I", "J", "K", "L", "M",
              "N", "O", "P", "Q", "R", "S", "T", "U", "V", "W", "X", "Y", "Z">>
LowerSeq == <<"a", "b", "c", "d", "e", "f", "g", "h", "i", "j", "k", "l", "m",
              "n", "o", "p", "q", "r", "s", "t", "u", "v", "w", "x", "y", "z">>
DigitSeq == <<"0", "1", "2", "3", "4", "5", "6", "7", "8", "9">>

UpperChars == {UpperSeq[i] : i \in 1..26}
LowerChars == {LowerSeq[i] : i \in 1..26}
DigitChars == {DigitSeq[i] : i \in 1..10}

\* the dash variants of normalize_address's character class, one element each
EnDash == "<en-dash>"
EmDash == "<em-dash>"
MinusSign == "<minus-sign>"

IsSpace(c) == c \in {" ", "\t", "\n"}
IsWordChar(c) == c \in UpperChars \cup LowerChars \cup DigitChars \cup {"_"}

LowerChar(c) ==
    IF c \in UpperChars THEN LowerSeq[CHOOSE i \in 1..26 : UpperSeq[i] = c] ELSE c

\* str.lower()
Lower(s) == [i \in 1..Len(s) |-> LowerChar(s[i])]

RECURSIVE LStripSet(_, _)
LStripSet(s, cs) ==
    IF s = << >> THEN s
    ELSE IF Head(s) \in cs THEN LStripSet(Tail(s), cs) ELSE s

RECURSIVE RStripSet(_, _)
\* str.rstrip(chars)
RStripSet(s, cs) ==
    IF s = << >> THEN s
    ELSE IF s[Len(s)] \in cs THEN RStripSet(SubSeq(s, 1, Len(s) - 1), cs) ELSE s

WhiteSpace == {" ", "\t", "\n"}

\* str.strip()
Strip(s) == RStripSet(LStripSet(s, WhiteSpace), WhiteSpace)

RECURSIVE Collapse(_, _)
\* copies s, writing one blank for every run of whitespace; pend says that a
\* run has been seen since the last copied character
Collapse(s, pend) ==
    IF s = << >> THEN << >>
    ELSE IF IsSpace(Head(s)) THEN Collapse(Tail(s), TRUE)
    ELSE (IF pend THEN <<" ">> ELSE << >>) \o <<Head(s)>> \o Collapse(Tail(s), FALSE)

\* " ".join(s.split())
JoinSplit(s) == Collapse(LStripSet(s, WhiteSpace), FALSE)

IsPrefix(p, s) == Len(p) <= Len(s) /\ SubSeq(s, 1, Len(p)) = p

\* the Python test  sub in s
Contains(s, sub) ==
    \E i \in 0..(Len(s) - Len(sub)) : SubSeq(s, i + 1, i + Len(sub)) = sub

RECURSIVE Replace(_, _, _)
\* str.replace(old, new) for a non-empty old
Replace(s, old, new) ==
    IF Len(s) < Len(old) THEN s
    ELSE IF IsPrefix(old, s)
         THEN new \o Replace(SubSeq(s, Len(old) + 1, Len(s)), old, new)
         ELSE <<Head(s)>> \o Replace(Tail(s), old, new)

RECURSIVE Digits(_)
Digits(n) ==
    IF n < 10 THEN <<DigitSeq[n + 1]>>
    ELSE Digits(n \div 10) \o <<DigitSeq[(n % 10) + 1]>>

Abs(n) == IF n < 0 THEN -n ELSE n

\* the fractional part of a float's repr: one digit, or two when needed
FracDigits(f) ==
    IF f % 10 = 0 THEN <<DigitSeq[(f \div 10) + 1]>>
    ELSE <<DigitSeq[(f \div 10) + 1], DigitSeq[(f % 10) + 1]>>

\* str(v)
PyStr(v) ==
    CASE v.k = "none" -> <<"N", "o", "n", "e">>
      [] v.k = "str" -> v.s
      [] v.k = "int" ->
           (IF v.n < 0 THEN <<"-">> ELSE << >>) \o Digits(Abs(v.n))
      [] v.k = "float" ->
           (IF v.c < 0 THEN <<"-">> ELSE << >>) \o Digits(Abs(v.c) \div 100)
               \o <<".">> \o FracDigits(Abs(v.c) % 100)

\* ---------------------------------------------------------------------
\* float(): the result is [ok |-> TRUE, c |-> hundredths] or NoFloat
\* ---------------------------------------------------------------------
NoFloat == [ok |-> FALSE, c |-> 0]
SomeFloat(c) == [ok |-> TRUE, c |-> c]

RECURSIVE DigitsValue(_)
DigitsValue(s) ==
    IF s = << >> THEN 0
    ELSE 10 * DigitsValue(SubSeq(s, 1, Len(s) - 1))
           + ((CHOOSE i \in 1..10 : DigitSeq[i] = s[Len(s)]) - 1)

AllDigits(s) == \A i \in 1..Len(s) : s[i] \in DigitChars

\* an unsigned decimal literal: digits, digits "." digits, digits ".", "." digits
UnsignedFloat(s) ==
    LET dots == {i \in 1..Len(s) : s[i] = "."} IN
    IF dots = {}
    THEN IF Len(s) > 0 /\ AllDigits(s) THEN SomeFloat(100 * DigitsValue(s)) ELSE NoFloat
    ELSE IF Cardinality(dots) > 1 THEN NoFloat
    ELSE LET d == CHOOSE i \in dots : TRUE
             ip == SubSeq(s, 1, d - 1)
             fp == SubSeq(s, d + 1, Len(s))
         IN IF ~AllDigits(ip) \/ ~AllDigits(fp) \/ Len(ip) + Len(fp) = 0 \/ Len(fp) > 2
            THEN NoFloat
            ELSE SomeFloat(100 * DigitsValue(ip)
                             + (IF Len(fp) = 1 THEN 10 * DigitsValue(fp)
                                ELSE DigitsValue(fp)))

\* float(s): surrounding whitespace and one leading sign are accepted
PyFloat(s) ==
    LET t == Strip(s) IN
    IF t = << >> THEN NoFloat
    ELSE IF Head(t) = "-"
         THEN LET u == UnsignedFloat(Tail(t)) IN
              IF u.ok THEN SomeFloat(-u.c) ELSE NoFloat
    ELSE IF Head(t) = "+" THEN UnsignedFloat(Tail(t))
    ELSE UnsignedFloat(t)

\* float(str(v).replace(",", "").strip()) with the except branch
_to_float_if_possible(v) == PyFloat(Strip(Replace(PyStr(v), <<",">>, << >>)))

\* round(x, 1) on hundredths; a tie goes to the even tenth
RoundTenth(c) ==
    LET a == Abs(c)
        lo == (a \div 10) * 10
        r == a % 10
        up == IF r > 5 THEN TRUE
              ELSE IF r < 5 THEN FALSE
              ELSE ((a \div 10) % 2) = 1
        m == IF up THEN lo + 10 ELSE lo
    IN IF c < 0 THEN -m ELSE m

\* ---------------------------------------------------------------------
\* Canonical fields of the dual-agent path
\* ---------------------------------------------------------------------
BUILDING_FIELDS ==
    <<"building_number", "location_full_address", "location_address",
      "location_city", "location_state", "location_zip", "units_per_building",
      "replacement_cost_tiv", "num_units", "livable_sq_ft", "garage_sq_ft">>

NUMERIC_BUILDING_FIELDS ==
    {"replacement_cost_tiv", "num_units", "livable_sq_ft", "garage_sq_ft"}

BuildingFieldSet == {BUILDING_FIELDS[i] : i \in 1..Len(BUILDING_FIELDS)}

\* dict.get(key): None for a key the dict does not hold
Get(rec, key) == IF key \in DOMAIN rec THEN rec[key] ELSE None

\* the empty dict
EmptyDict == [key \in {} |-> None]

\* ---------------------------------------------------------------------
\* Fuzzy comparison
\* ---------------------------------------------------------------------
\* fuzzy_numeric_equal without the rounding of large magnitudes
fuzzy_numeric_equal_unrounded(a, b) ==
    LET fa == _to_float_if_possible(a)
        fb == _to_float_if_possible(b)
    IN IF ~fa.ok \/ ~fb.ok THEN FALSE ELSE Abs(fa.c - fb.c) <= 50

fuzzy_numeric_equal(a, b) ==
    LET fa == _to_float_if_possible(a)
        fb == _to_float_if_possible(b)
    IN IF ~fa.ok \/ ~fb.ok THEN FALSE
       ELSE IF Abs(fa.c) > 100000
            THEN Abs(RoundTenth(fa.c) - RoundTenth(fb.c)) <= 50
            ELSE Abs(fa.c - fb.c) <= 50

UnifyDash(c) == IF c \in {EnDash, EmDash, MinusSign} THEN "-" ELSE c

\* normalize_address on a non-None value
normalize_address(v) ==
    LET s1 == JoinSplit(PyStr(v))
        s2 == [i \in 1..Len(s1) |-> UnifyDash(s1[i])]
        s3 == Lower(s2)
    IN RStripSet(s3, {",", ".", ";", " "})

\* _normalize_string on a non-None value: [^\w\s\-] is removed
_normalize_string(v) ==
    LET s1 == Strip(Lower(PyStr(v)))
        s2 == JoinSplit(s1)
    IN SelectSeq(s2, LAMBDA c : IsWordChar(c) \/ IsSpace(c) \/ c = "-")

\* the "null"-and-comma cleaning of an address form
CleanNull(n) ==
    JoinSplit(Replace(Replace(n, <<"n", "u", "l", "l">>, << >>), <<",">>, << >>))

\* _fuzzy_equal without the substring test on the cleaned forms
_fuzzy_equal_no_substring(a, b) ==
    IF IsNone(a) /\ IsNone(b) THEN TRUE
    ELSE IF IsNone(a) \/ IsNone(b) THEN FALSE
    ELSE IF fuzzy_numeric_equal(a, b) THEN TRUE
    ELSE LET na == normalize_address(a)
             nb == normalize_address(b)
             cleaned_na == CleanNull(na)
             cleaned_nb == CleanNull(nb)
         IN IF na = nb THEN TRUE
            ELSE IF cleaned_na = cleaned_nb THEN TRUE
            ELSE _normalize_string(a) = _normalize_string(b)

_fuzzy_equal(a, b) ==
    IF IsNone(a) /\ IsNone(b) THEN TRUE
    ELSE IF IsNone(a) \/ IsNone(b) THEN FALSE
    ELSE IF fuzzy_numeric_equal(a, b) THEN TRUE
    ELSE LET na == normalize_address(a)
             nb == normalize_address(b)
             cleaned_na == CleanNull(na)
             cleaned_nb == CleanNull(nb)
         IN IF na = nb THEN TRUE
            ELSE IF cleaned_na = cleaned_nb THEN TRUE
            ELSE IF Contains(cleaned_nb, cleaned_na) \/ Contains(cleaned_na, cleaned_nb)
                 THEN TRUE
            ELSE _normalize_string(a) = _normalize_string(b)

\* ---------------------------------------------------------------------
\* Richer-value tie-break
\* ---------------------------------------------------------------------
is_range(v) ==
    IF IsNone(v) THEN FALSE
    ELSE LET s == PyStr(v) IN
         \/ Contains(s, <<" ", "t", "o", " ">>)
         \/ Contains(s, <<"-">>)
         \/ Contains(s, <<",">>)
         \/ Contains(Lower(s), <<"t", "h", "r", "u">>)

\* v1 if len(str(v1)) > len(str(v2)) else v2
LongerOrSecond(v1, v2) == IF Len(PyStr(v1)) > Len(PyStr(v2)) THEN v1 ELSE v2

\* v1 if len(str(v1)) >= len(str(v2)) else v2
LongerOrFirst(v1, v2) == IF Len(PyStr(v1)) >= Len(PyStr(v2)) THEN v1 ELSE v2

choose_richer_value(field, v1, v2) ==
    IF IsNone(v1) /\ IsNone(v2) THEN None
    ELSE IF field \in {"location_full_address", "location_address"}
         THEN LongerOrFirst(v1, v2)
    ELSE IF field = "units_per_building"
         THEN IF is_range(v1) /\ ~is_range(v2) THEN v1
              ELSE IF is_range(v2) /\ ~is_range(v1) THEN v2
              ELSE LongerOrFirst(v1, v2)
    ELSE LongerOrFirst(v1, v2)

\* ---------------------------------------------------------------------
\* compare_model_outputs
\* ---------------------------------------------------------------------
\* an agent response: sheet_type is "general", "building" or NoType (the key
\* is missing or holds anything else); has_buildings is FALSE when the
\* "buildings" key is missing or null
NoType == "none"
SheetTypes == {"general", "building"}
Response(t, has, rows) == [sheet_type |-> t, has_buildings |-> has, buildings |-> rows]

\* a.get("buildings", []) or []
RowsOf(a) == IF a.has_buildings THEN a.buildings ELSE << >>

\* merged_type with "and" in place of "or"
merged_type_both(type_a, type_b) ==
    IF type_a = "general" /\ type_b = "general" THEN "general" ELSE "building"

merged_type(type_a, type_b) ==
    IF type_a = "general" \/ type_b = "general" THEN "general" ELSE "building"

\* the merge loop body keeping a value only if both agents gave one
MergeField_both_only(key, v1, v2) ==
    IF IsNone(v1) \/ IsNone(v2) THEN [value |-> None, mismatch |-> FALSE]
    ELSE IF _fuzzy_equal(v1, v2) THEN [value |-> v1, mismatch |-> FALSE]
    ELSE LET c == choose_richer_value(key, v1, v2)
             chosen == IF IsNone(c) THEN v1 ELSE c
         IN [value |-> chosen, mismatch |-> TRUE]

\* the merge loop body keeping the second agent's value on a fuzzy match
MergeField_keep_second(key, v1, v2) ==
    IF IsNone(v1) /\ IsNone(v2) THEN [value |-> None, mismatch |-> FALSE]
    ELSE IF _fuzzy_equal(v1, v2) THEN [value |-> v2, mismatch |-> FALSE]
    ELSE IF IsNone(v1) /\ ~IsNone(v2) THEN [value |-> v2, mismatch |-> FALSE]
    ELSE IF IsNone(v2) /\ ~IsNone(v1) THEN [value |-> v1, mismatch |-> FALSE]
    ELSE LET c == choose_richer_value(key, v1, v2)
             chosen == IF IsNone(c) THEN v1 ELSE c
         IN [value |-> chosen, mismatch |-> TRUE]

\* one iteration of the loop over BUILDING_FIELDS: the merged value and whether
\* the key is entered in mismatches
MergeField(key, v1, v2) ==
    IF IsNone(v1) /\ IsNone(v2) THEN [value |-> None, mismatch |-> FALSE]
    ELSE IF _fuzzy_equal(v1, v2) THEN [value |-> v1, mismatch |-> FALSE]
    ELSE IF IsNone(v1) /\ ~IsNone(v2) THEN [value |-> v2, mismatch |-> FALSE]
    ELSE IF IsNone(v2) /\ ~IsNone(v1) THEN [value |-> v1, mismatch |-> FALSE]
    ELSE LET c == choose_richer_value(key, v1, v2)
             chosen == IF IsNone(c) THEN v1 ELSE c
         IN [value |-> chosen, mismatch |-> TRUE]

\* rows[idx] if idx < len(rows) else {}   (idx counted from 1 here)
RowAt(rows, idx) == IF idx <= Len(rows) THEN rows[idx] ELSE EmptyDict

MergeRecord(rec_a, rec_b) ==
    [key \in BuildingFieldSet |-> MergeField(key, Get(rec_a, key), Get(rec_b, key)).value]

Max(x, y) == IF x >= y THEN x ELSE y
Min(x, y) == IF x <= y THEN x ELSE y

\* compare_model_outputs pairing only up to the shorter list
compare_model_outputs_zip(a, b) ==
    LET rows_a == RowsOf(a)
        rows_b == RowsOf(b)
        min_len == Min(Len(rows_a), Len(rows_b))
    IN [sheet_type |-> merged_type(a.sheet_type, b.sheet_type),
        buildings |-> [idx \in 1..min_len |->
                          MergeRecord(RowAt(rows_a, idx), RowAt(rows_b, idx))]]

compare_model_outputs(a, b) ==
    LET rows_a == RowsOf(a)
        rows_b == RowsOf(b)
        max_len == Max(Len(rows_a), Len(rows_b))
    IN [sheet_type |-> merged_type(a.sheet_type, b.sheet_type),
        buildings |-> [idx \in 1..max_len |->
                          MergeRecord(RowAt(rows_a, idx), RowAt(rows_b, idx))]]

\* ---------------------------------------------------------------------
\* parse_workbook of the dual-agent path: per-sheet steps
\* ---------------------------------------------------------------------
\* the harvested keys with building_number among them
LOCATION_KEYS_and_number ==
    {"location_full_address", "location_address", "location_city",
     "location_state", "location_zip", "building_number"}

LOCATION_KEYS ==
    {"location_full_address", "location_address", "location_city",
     "location_state", "location_zip"}

\* extract_property_metadata without the truthiness filter
extract_property_metadata_all(record) ==
    [key \in LOCATION_KEYS |-> Get(record, key)]

\* extract_property_metadata: the location keys whose value is truthy
extract_property_metadata(record) ==
    [key \in {q \in LOCATION_KEYS : Truthy(Get(record, q))} |-> Get(record, key)]

\* dict.update
Update(d, e) ==
    [key \in (DOMAIN d) \cup (DOMAIN e) |-> IF key \in DOMAIN e THEN e[key] ELSE d[key]]

\* _coerce_float: None, or the float the text parses to
_coerce_float(v) ==
    IF IsNone(v) THEN None
    ELSE LET f == _to_float_if_possible(v) IN
         IF f.ok THEN FloatV(f.c) ELSE None

\* safe_record of one merged candidate
SafeRecord(rec) ==
    [field \in BuildingFieldSet |->
        LET raw == Get(rec, field) IN
        IF field \in NUMERIC_BUILDING_FIELDS THEN _coerce_float(raw)
        ELSE IF raw \notin {EmptyStr, NullStr} THEN raw ELSE None]

\* ---------------------------------------------------------------------
\* The BuildingRecord dataclass of the dual-agent path
\* ---------------------------------------------------------------------
\* the dataclass declaring a field that BUILDING_FIELDS does not list
BuildingRecordFields_extra ==
    {"building_number", "location_full_address", "location_address",
     "location_city", "location_state", "location_zip", "units_per_building",
     "replacement_cost_tiv", "num_units", "livable_sq_ft", "garage_sq_ft", "lat"}

\* the fields of the dataclass, all with the default None
BuildingRecordFields ==
    {"building_number", "location_full_address", "location_address",
     "location_city", "location_state", "location_zip", "units_per_building",
     "replacement_cost_tiv", "num_units", "livable_sq_ft", "garage_sq_ft"}

\* a dataclass constructor accepts keyword arguments that name its fields and
\* that give every field without a default; otherwise it raises TypeError
Constructs(fields, required, kwargs) ==
    /\ DOMAIN kwargs \subseteq fields
    /\ required \subseteq DOMAIN kwargs

\* the __dict__ of the constructed object
NewRecord(fields, kwargs) == [f \in fields |-> Get(kwargs, f)]

\* property_meta after one sheet: a general sheet with at least one merged
\* candidate updates the map from its first candidate
SheetMeta(meta, merged) ==
    IF merged.sheet_type = "general" /\ Len(merged.buildings) > 0
    THEN Update(meta, extract_property_metadata(merged.buildings[1]))
    ELSE meta

\* the building branch entered for every sheet (the "continue" is missing)
SheetBuildings_fallthrough(merged) ==
    [i \in 1..Len(merged.buildings) |->
        NewRecord(BuildingRecordFields, SafeRecord(merged.buildings[i]))]

\* the records one sheet appends to all_buildings: none for a general sheet
SheetBuildings(merged) ==
    IF merged.sheet_type = "general" THEN << >>
    ELSE [i \in 1..Len(merged.buildings) |->
             NewRecord(BuildingRecordFields, SafeRecord(merged.buildings[i]))]

\* getattr(b, field) in (None, "", "null")
IsPlaceholder(v) == v \in {None, EmptyStr, NullStr}

\* the inheritance loop body without the test of the current value
Inherit_overwrite(b, meta) ==
    [field \in DOMAIN b |-> IF field \in DOMAIN meta THEN meta[field] ELSE b[field]]

\* the inheritance loop body testing for "" only
Inherit_only_empty(b, meta) ==
    [field \in DOMAIN b |->
        IF field \in DOMAIN meta /\ b[field] = EmptyStr THEN meta[field]
        ELSE b[field]]

\* the inheritance loop body for one building
Inherit(b, meta) ==
    [field \in DOMAIN b |->
        IF field \in DOMAIN meta /\ IsPlaceholder(b[field]) THEN meta[field]
        ELSE b[field]]

\* =====================================================================
\* The heuristic path (sov_parser.py)
\* =====================================================================
\* PROPERTY_FIELDS of the heuristic path
PROPERTY_FIELDS ==
    <<"source_file", "sheet_name", "number_of_buildings", "roof_type",
      "building_valuation_type", "building_replacement_cost",
      "blanket_outdoor_property", "business_personal_property",
      "total_insurable_value", "general_liability", "building_ordinance_a",
      "building_ordinance_b", "building_ordinance_c", "equipment_breakdown",
      "sewer_or_drain_backup", "business_income", "hired_and_non_owned_auto",
      "playgrounds_number", "streets_miles", "pools_number", "spas_number",
      "wader_pools_number", "restroom_building_sq_ft", "guardhouse_sq_ft",
      "clubhouse_sq_ft", "fitness_center_sq_ft", "tennis_courts_number",
      "basketball_courts_number", "other_sport_courts_number",
      "walking_biking_trails_miles", "lakes_or_ponds_number",
      "boat_docks_and_slips_number", "dog_parks_number", "elevators_number",
      "commercial_exposure_sq_ft">>

\* BUILDING_FIELDS of the heuristic path
BUILDING_FIELDS_H ==
    <<"source_file", "sheet_name", "row_index", "building_number",
      "location_full_address", "location_address", "location_city", "location_state",
      "location_zip", "lat", "long", "betterview_id", "betterview_building_number",
      "units_per_building", "replacement_cost_tiv", "num_units", "livable_sq_ft",
      "garage_sq_ft", "commercial_sq_ft", "building_class", "parking_type",
      "roof_type", "smoke_detectors", "sprinklered", "year_of_construction",
      "number_of_stories", "construction_type">>

\* the synonym table, in the order of the dict literal
BUILDING_HEADER_MAP ==
    << << <<"b", "l", "d", "g", " ", "#">>, "building_number">>,
      << <<"b", "l", "d", "g">>, "building_number">>,
      << <<"b", "u", "i", "l", "d", "i", "n", "g", " ", "#">>, "building_number">>,
      << <<"b", "u", "i", "l", "d", "i", "n", "g", " ", "n", "u", "m", "b", "e", "r">>, "building_number">>,
      << <<"b", "l", "d", "g", " ", "n", "o", ".">>, "building_number">>,
      << <<"l", "o", "c", "a", "t", "i", "o", "n", " ", "f", "u", "l", "l", " ", "a", "d", "d", "r", "e", "s", "s">>, "location_full_address">>,
      << <<"a", "d", "d", "r", "e", "s", "s", " ", "#">>, "location_address">>,
      << <<"a", "d", "d", "r", "e", "s", "s">>, "location_address">>,
      << <<"a", "d", "d", "r", "e", "s", "s", " ", "n", "a", "m", "e">>, "location_address">>,
      << <<"s", "t", "r", "e", "e", "t">>, "location_address">>,
      << <<"c", "i", "t", "y">>, "location_city">>,
      << <<"s", "t">>, "location_state">>,
      << <<"s", "t", "a", "t", "e">>, "location_state">>,
      << <<"z", "i", "p">>, "location_zip">>,
      << <<"z", "i", "p", " ", "c", "o", "d", "e">>, "location_zip">>,
      << <<"l", "a", "t">>, "lat">>,
      << <<"l", "a", "t", "i", "t", "u", "d", "e">>, "lat">>,
      << <<"l", "o", "n", "g">>, "long">>,
      << <<"l", "o", "n", "g", "i", "t", "u", "d", "e">>, "long">>,
      << <<"b", "e", "t", "t", "e", "r", "v", "i", "e", "w", " ", "i", "d">>, "betterview_id">>,
      << <<"b", "e", "t", "t", "e", "r", "v", "i", "e", "w", " ", "b", "u", "i", "l", "d", "i", "n", "g", " ", "n", "u", "m", "b", "e", "r">>, "betterview_building_number">>,
      << <<"u", "n", "i", "t", "s", " ", "p", "e", "r", " ", "b", "u", "i", "l", "d", "i", "n", "g">>, "units_per_building">>,
      << <<"n", "u", "m", "b", "e", "r", " ", "o", "f", " ", "u", "n", "i", "t", "s">>, "num_units">>,
      << <<"#", " ", "o", "f", " ", "u", "n", "i", "t", "s">>, "num_units">>,
      << <<"u", "n", "i", "t", "s">>, "num_units">>,
      << <<"r", "e", "p", "l", "a", "c", "e", "m", "e", "n", "t", " ", "c", "o", "s", "t">>, "replacement_cost_tiv">>,
      << <<"b", "u", "i", "l", "d", "i", "n", "g", " ", "t", "i", "v">>, "replacement_cost_tiv">>,
      << <<"t", "i", "v">>, "replacement_cost_tiv">>,
      << <<"l", "i", "v", "a", "b", "l", "e", " ", "s", "q", " ", "f", "t">>, "livable_sq_ft">>,
      << <<"l", "i", "v", "a", "b", "l", "e", " ", "s", "q", ".", " ", "f", "t", ".">>, "livable_sq_ft">>,
      << <<"l", "i", "v", "a", "b", "l", "e", " ", "s", "q", "u", "a", "r", "e", " ", "f", "o", "o", "t", "a", "g", "e">>, "livable_sq_ft">>,
      << <<"g", "a", "r", "a", "g", "e", " ", "s", "q", " ", "f", "t">>, "garage_sq_ft">>,
      << <<"g", "a", "r", "a", "g", "e", " ", "s", "q", ".", " ", "f", "t", ".">>, "garage_sq_ft">>,
      << <<"g", "a", "r", "a", "g", "e", " ", "s", "q", "u", "a", "r", "e", " ", "f", "o", "o", "t", "a", "g", "e">>, "garage_sq_ft">>,
      << <<"c", "o", "m", "m", "e", "r", "c", "i", "a", "l", " ", "s", "q", " ", "f", "t">>, "commercial_sq_ft">>,
      << <<"b", "u", "i", "l", "d", "i", "n", "g", " ", "c", "l", "a", "s", "s">>, "building_class">>,
      << <<"p", "a", "r", "k", "i", "n", "g", " ", "t", "y", "p", "e">>, "parking_type">>,
      << <<"r", "o", "o", "f", " ", "t", "y", "p", "e">>, "roof_type">>,
      << <<"s", "m", "o", "k", "e", " ", "d", "e", "t", "e", "c", "t", "o", "r", "s">>, "smoke_detectors">>,
      << <<"s", "p", "r", "i", "n", "k", "l", "e", "r", "e", "d">>, "sprinklered">>,
      << <<"y", "e", "a", "r", " ", "o", "f", " ", "c", "o", "n", "s", "t", "r", "u", "c", "t", "i", "o", "n">>, "year_of_construction">>,
      << <<"y", "e", "a", "r", " ", "b", "u", "i", "l", "t">>, "year_of_construction">>,
      << <<"n", "u", "m", "b", "e", "r", " ", "o", "f", " ", "s", "t", "o", "r", "i", "e", "s">>, "number_of_stories">>,
      << <<"#", " ", "o", "f", " ", "s", "t", "o", "r", "i", "e", "s">>, "number_of_stories">>,
      << <<"s", "t", "o", "r", "i", "e", "s">>, "number_of_stories">>,
      << <<"c", "o", "n", "s", "t", "r", "u", "c", "t", "i", "o", "n", " ", "t", "y", "p", "e">>, "construction_type">>,
      << <<"c", "o", "n", "s", "t", "r", "u", "c", "t", "i", "o", "n">>, "construction_type">> >>

NUMERIC_BUILDING_FIELDS_H ==
    {"commercial_sq_ft", "garage_sq_ft", "lat", "livable_sq_ft", "long", "num_units",
      "number_of_stories", "replacement_cost_tiv", "units_per_building",
      "year_of_construction"}

\* the label table, in the order of the dict literal
PROPERTY_CELL_MAP ==
    << << <<"n", "u", "m", "b", "e", "r", " ", "o", "f", " ", "b", "u", "i", "l", "d", "i", "n", "g", "s">>, "number_of_buildings">>,
      << <<"#", " ", "o", "f", " ", "b", "u", "i", "l", "d", "i", "n", "g", "s">>, "number_of_buildings">>,
      << <<"r", "o", "o", "f", " ", "t", "y", "p", "e">>, "roof_type">>,
      << <<"b", "u", "i", "l", "d", "i", "n", "g", " ", "v", "a", "l", "u", "a", "t", "i", "o", "n", " ", "t", "y", "p", "e">>, "building_valuation_type">>,
      << <<"b", "u", "i", "l", "d", "i", "n", "g", " ", "r", "e", "p", "l", "a", "c", "e", "m", "e", "n", "t", " ", "c", "o", "s", "t">>, "building_replacement_cost">>,
      << <<"r", "e", "p", "l", "a", "c", "e", "m", "e", "n", "t", " ", "c", "o", "s", "t">>, "building_replacement_cost">>,
      << <<"b", "u", "i", "l", "d", "i", "n", "g", " ", "r", "e", "p", "l", "a", "c", "e", "m", "e", "n", "t", " ", "c", "o", "s", "t", " ", "(", "$", ")">>, "building_replacement_cost">>,
      << <<"b", "l", "d", "g", " ", "r", "e", "p", "l", "a", "c", "e", "m", "e", "n", "t", " ", "c", "o", "s", "t">>, "building_replacement_cost">>,
      << <<"b", "l", "d", "g", " ", "r", "e", "p", "l", " ", "c", "o", "s", "t">>, "building_replacement_cost">>,
      << <<"r", "c">>, "building_replacement_cost">>,
      << <<"r", "c", " ", "v", "a", "l", "u", "e">>, "building_replacement_cost">>,
      << <<"b", "l", "a", "n", "k", "e", "t", " ", "o", "u", "t", "d", "o", "o", "r", " ", "p", "r", "o", "p", "e", "r", "t", "y">>, "blanket_outdoor_property">>,
      << <<"b", "u", "s", "i", "n", "e", "s", "s", " ", "p", "e", "r", "s", "o", "n", "a", "l", " ", "p", "r", "o", "p", "e", "r", "t", "y">>, "business_personal_property">>,
      << <<"b", "p", "p">>, "business_personal_property">>,
      << <<"t", "o", "t", "a", "l", " ", "i", "n", "s", "u", "r", "a", "b", "l", "e", " ", "v", "a", "l", "u", "e">>, "total_insurable_value">>,
      << <<"t", "i", "v">>, "total_insurable_value">>,
      << <<"g", "e", "n", "e", "r", "a", "l", " ", "l", "i", "a", "b", "i", "l", "i", "t", "y">>, "general_liability">>,
      << <<"b", "u", "i", "l", "d", "i", "n", "g", " ", "o", "r", "d", "i", "n", "a", "n", "c", "e", " ", "a">>, "building_ordinance_a">>,
      << <<"b", "u", "i", "l", "d", "i", "n", "g", " ", "o", "r", "d", "i", "n", "a", "n", "c", "e", " ", "b">>, "building_ordinance_b">>,
      << <<"b", "u", "i", "l", "d", "i", "n", "g", " ", "o", "r", "d", "i", "n", "a", "n", "c", "e", " ", "c">>, "building_ordinance_c">>,
      << <<"a", " ", ",", " ", "b", " ", "&", " ", "c", " ", "l", "i", "m", "i", "t", "s">>, "building_ordinance_a">>,
      << <<"e", "q", "u", "i", "p", "m", "e", "n", "t", " ", "b", "r", "e", "a", "k", "d", "o", "w", "n">>, "equipment_breakdown">>,
      << <<"s", "e", "w", "e", "r", " ", "o", "r", " ", "d", "r", "a", "i", "n", " ", "b", "a", "c", "k", " ", "u", "p">>, "sewer_or_drain_backup">>,
      << <<"s", "e", "w", "e", "r", " ", "b", "a", "c", "k", "u", "p">>, "sewer_or_drain_backup">>,
      << <<"b", "u", "s", "i", "n", "e", "s", "s", " ", "i", "n", "c", "o", "m", "e">>, "business_income">>,
      << <<"a", "c", "t", "u", "a", "l", " ", "l", "o", "s", "s", " ", "s", "u", "s", "t", "a", "i", "n", "e", "d", " ", "t", "o", "t", "a", "l">>, "business_income">>,
      << <<"a", "l", "s">>, "business_income">>,
      << <<"h", "i", "r", "e", "d", " ", "a", "n", "d", " ", "n", "o", "n", "-", "o", "w", "n", "e", "d", " ", "a", "u", "t", "o">>, "hired_and_non_owned_auto">>,
      << <<"p", "l", "a", "y", "g", "r", "o", "u", "n", "d", "s">>, "playgrounds_number">>,
      << <<"s", "t", "r", "e", "e", "t", "s", " ", "m", "i", "l", "e", "s">>, "streets_miles">>,
      << <<"p", "o", "o", "l", "s">>, "pools_number">>,
      << <<"s", "p", "a", "s">>, "spas_number">>,
      << <<"w", "a", "d", "e", "r", " ", "p", "o", "o", "l", "s">>, "wader_pools_number">>,
      << <<"r", "e", "s", "t", "r", "o", "o", "m", " ", "b", "u", "i", "l", "d", "i", "n", "g", " ", "s", "q", " ", "f", "t">>, "restroom_building_sq_ft">>,
      << <<"g", "u", "a", "r", "d", "h", "o", "u", "s", "e", " ", "s", "q", " ", "f", "t">>, "guardhouse_sq_ft">>,
      << <<"c", "l", "u", "b", "h", "o", "u", "s", "e", " ", "s", "q", " ", "f", "t">>, "clubhouse_sq_ft">>,
      << <<"f", "i", "t", "n", "e", "s", "s", " ", "c", "e", "n", "t", "e", "r", " ", "s", "q", " ", "f", "t">>, "fitness_center_sq_ft">>,
      << <<"t", "e", "n", "n", "i", "s", " ", "c", "o", "u", "r", "t", "s">>, "tennis_courts_number">>,
      << <<"b", "a", "s", "k", "e", "t", "b", "a", "l", "l", " ", "c", "o", "u", "r", "t", "s">>, "basketball_courts_number">>,
      << <<"o", "t", "h", "e", "r", " ", "s", "p", "o", "r", "t", " ", "c", "o", "u", "r", "t", "s">>, "other_sport_courts_number">>,
      << <<"w", "a", "l", "k", "i", "n", "g", " ", "/", " ", "b", "i", "k", "i", "n", "g", " ", "t", "r", "a", "i", "l", "s">>, "walking_biking_trails_miles">>,
      << <<"w", "a", "l", "k", "i", "n", "g", "/", "b", "i", "k", "i", "n", "g", " ", "t", "r", "a", "i", "l", "s">>, "walking_biking_trails_miles">>,
      << <<"l", "a", "k", "e", "s", " ", "o", "r", " ", "p", "o", "n", "d", "s">>, "lakes_or_ponds_number">>,
      << <<"b", "o", "a", "t", " ", "d", "o", "c", "k", "s", " ", "a", "n", "d", " ", "s", "l", "i", "p", "s">>, "boat_docks_and_slips_number">>,
      << <<"d", "o", "g", " ", "p", "a", "r", "k", "s">>, "dog_parks_number">>,
      << <<"e", "l", "e", "v", "a", "t", "o", "r", "s">>, "elevators_number">>,
      << <<"c", "o", "m", "m", "e", "r", "c", "i", "a", "l", " ", "e", "x", "p", "o", "s", "u", "r", "e", " ", "s", "q", " ", "f", "t">>, "commercial_exposure_sq_ft">> >>

NUMERIC_PROPERTY_FIELDS ==
    {"basketball_courts_number", "blanket_outdoor_property",
      "boat_docks_and_slips_number", "building_ordinance_a", "building_ordinance_b",
      "building_ordinance_c", "building_replacement_cost", "business_income",
      "business_personal_property", "clubhouse_sq_ft", "commercial_exposure_sq_ft",
      "dog_parks_number", "elevators_number", "equipment_breakdown",
      "fitness_center_sq_ft", "general_liility", "guardhouse_sq_ft",
      "hired_and_non_owned_auto", "lakes_or_ponds_number", "number_of_buildings",
      "other_sport_courts_number", "playgrounds_number", "pools_number",
      "restroom_building_sq_ft", "sewer_or_drain_backup", "spas_number",
      "streets_miles", "tennis_courts_number", "total_insurable_value",
      "wader_pools_number", "walking_biking_trails_miles"}

\* the fields of the PropertyRecord dataclass
PropertyRecordFields ==
    {"source_file", "sheet_name", "number_of_buildings", "roof_type",
      "building_valuation_type", "building_replacement_cost",
      "blanket_outdoor_property", "business_personal_property",
      "total_insurable_value", "general_liability", "building_ordinance_a",
      "building_ordinance_b", "building_ordinance_c", "equipment_breakdown",
      "sewer_or_drain_backup", "business_income", "hired_and_non_owned_auto",
      "playgrounds_number", "streets_miles", "pools_number", "spas_number",
      "wader_pools_number", "restroom_building_sq_ft", "guardhouse_sq_ft",
      "clubhouse_sq_ft", "fitness_center_sq_ft", "tennis_courts_number",
      "basketball_courts_number", "other_sport_courts_number",
      "walking_biking_trails_miles", "lakes_or_ponds_number",
      "boat_docks_and_slips_number", "dog_parks_number", "elevators_number",
      "commercial_exposure_sq_ft"}

\* the fields of the heuristic BuildingRecord dataclass
BuildingRecordFields_H ==
    {"source_file", "sheet_name", "row_index", "building_number",
      "location_full_address", "location_address", "location_city", "location_state",
      "location_zip", "lat", "long", "betterview_id", "betterview_building_number",
      "units_per_building", "replacement_cost_tiv", "num_units", "livable_sq_ft",
      "garage_sq_ft", "commercial_sq_ft", "building_class", "parking_type",
      "roof_type", "smoke_detectors", "sprinklered", "year_of_construction",
      "number_of_stories", "construction_type"}

PropertyFieldSet == {PROPERTY_FIELDS[i] : i \in 1..Len(PROPERTY_FIELDS)}
BuildingFieldSet_H == {BUILDING_FIELDS_H[i] : i \in 1..Len(BUILDING_FIELDS_H)}

\* the dataclass fields without a default
PropertyRecordRequired == {"source_file", "sheet_name"}
BuildingRecordRequired_H == {"source_file", "sheet_name", "row_index"}

IsText(v) == v.k = "str"

\* isinstance(cell, str) and cell.strip()
IsLabel(v) == IsText(v) /\ Strip(v.s) # << >>

\* cell in (None, "")
IsBlank(v) == v \in {None, EmptyStr}

\* normalize_header: strip, lower, whitespace runs to one blank, colons removed
normalize_header(s) == Replace(JoinSplit(Lower(Strip(s))), <<":">>, << >>)

\* dict lookups on an ordered table of <<key, field>> pairs
HasKey(table, n) == \E i \in 1..Len(table) : table[i][1] = n
Lookup(table, n) == table[CHOOSE i \in 1..Len(table) : table[i][1] = n][2]
FirstOf(S) == CHOOSE i \in S : \A j \in S : i <= j

\* no field: the cell is mapped to nothing
NoField == "<none>"

\* parse_numeric
parse_numeric(v) ==
    IF IsNone(v) THEN None
    ELSE IF v.k = "int" THEN FloatV(100 * v.n)
    ELSE IF v.k = "float" THEN v
    ELSE LET f == PyFloat(Strip(Replace(PyStr(v), <<",">>, << >>))) IN
         IF f.ok THEN FloatV(f.c) ELSE None

RECURSIVE JoinTextCells(_, _)
\* " ".join(str(c).lower() for c in row if isinstance(c, str))
JoinTextCells(row, first) ==
    IF row = << >> THEN << >>
    ELSE IF IsText(Head(row))
         THEN (IF first THEN << >> ELSE <<" ">>) \o Lower(Head(row).s)
                 \o JoinTextCells(Tail(row), FALSE)
         ELSE JoinTextCells(Tail(row), first)

TOTALS_WORDS ==
    { <<"t", "o", "t", "a", "l">>, <<"m", "i", "s", "c">>,
      <<"s", "t", "a", "t", "e", "m", "e", "n", "t", " ", "o", "f", " ",
        "v", "a", "l", "u", "e", "s">> }

is_totals_row(row) ==
    LET text == JoinTextCells(row, TRUE) IN \E t \in TOTALS_WORDS : Contains(text, t)

\* --- detect_header_row ---
HEADER_KEYWORDS ==
    { <<"b", "l", "d", "g">>, <<"s", "t", "r", "e", "e", "t">>,
      <<"a", "d", "d", "r", "e", "s", "s">>, <<"z", "i", "p">>,
      <<"c", "i", "t", "y">>, <<"u", "n", "i", "t", "s">>,
      <<"l", "i", "v", "a", "b", "l", "e">> }

CellScore(cell) ==
    IF ~IsLabel(cell) THEN 0
    ELSE LET n == normalize_header(cell.s) IN
         IF HasKey(BUILDING_HEADER_MAP, n) THEN 2
         ELSE IF \E k \in HEADER_KEYWORDS : Contains(n, k) THEN 1
         ELSE 0

RECURSIVE RowScore(_)
RowScore(row) == IF row = << >> THEN 0 ELSE CellScore(Head(row)) + RowScore(Tail(row))

\* the least score a header row must reach
MIN_HEADER_SCORE == 2

\* no header row
NoHeader == 0

\* detect_header_row taking any row with a positive score as the header
detect_header_row_any(rows) ==
    IF rows = << >> THEN NoHeader
    ELSE LET best_score == CHOOSE m \in {RowScore(rows[i]) : i \in 1..Len(rows)} :
                              \A i \in 1..Len(rows) : RowScore(rows[i]) <= m
             best_idx == FirstOf({i \in 1..Len(rows) : RowScore(rows[i]) = best_score})
         IN IF best_score < 1 THEN NoHeader ELSE best_idx

\* detect_header_row with the last of the rows that share the highest score
detect_header_row_last(rows) ==
    IF rows = << >> THEN NoHeader
    ELSE LET best_score == CHOOSE m \in {RowScore(rows[i]) : i \in 1..Len(rows)} :
                              \A i \in 1..Len(rows) : RowScore(rows[i]) <= m
             best_idx == CHOOSE i \in 1..Len(rows) :
                            /\ RowScore(rows[i]) = best_score
                            /\ \A j \in (i + 1)..Len(rows) : RowScore(rows[j]) # best_score
         IN IF best_score < MIN_HEADER_SCORE THEN NoHeader ELSE best_idx

\* the index (from 1) of the first row with the highest score, or NoHeader
detect_header_row(rows) ==
    IF rows = << >> THEN NoHeader
    ELSE LET best_score == CHOOSE m \in {RowScore(rows[i]) : i \in 1..Len(rows)} :
                              \A i \in 1..Len(rows) : RowScore(rows[i]) <= m
             best_idx == FirstOf({i \in 1..Len(rows) : RowScore(rows[i]) = best_score})
         IN IF best_score < MIN_HEADER_SCORE THEN NoHeader ELSE best_idx

\* --- build_column_mapping ---
\* the shortest synonym the substring fallback may use is longer than this
MIN_SUBSTRING_KEY == 3

HeaderField(cell) ==
    IF ~IsLabel(cell) THEN NoField
    ELSE LET n == normalize_header(cell.s) IN
         IF HasKey(BUILDING_HEADER_MAP, n) THEN Lookup(BUILDING_HEADER_MAP, n)
         ELSE LET hits == {i \in 1..Len(BUILDING_HEADER_MAP) :
                              /\ Contains(n, BUILDING_HEADER_MAP[i][1])
                              /\ Len(BUILDING_HEADER_MAP[i][1]) > MIN_SUBSTRING_KEY}
              IN IF hits = {} THEN NoField ELSE BUILDING_HEADER_MAP[FirstOf(hits)][2]

\* column (from 1) -> field, for the columns whose header maps to a field
build_column_mapping(header_row) ==
    [idx \in {i \in 1..Len(header_row) : HeaderField(header_row[i]) # NoField} |->
        HeaderField(header_row[idx])]

\* --- parse_buildings_from_sheet ---
\* dict item assignment
Put(d, key, x) == [q \in (DOMAIN d) \cup {key} |-> IF q = key THEN x ELSE d[q]]

\* the value a mapped cell gives to its field
CellValue(field, cell) ==
    IF field \in NUMERIC_BUILDING_FIELDS_H THEN parse_numeric(cell)
    ELSE StrV(Strip(PyStr(cell)))

RECURSIVE FillRecord(_, _, _, _)
\* the loop over mapping.items(), columns in ascending order from col
\* (each loop below binds the dict after one step through a one-element set,
\* so that the step is evaluated once and the next step starts from its value)
FillRecord(rec, mapping, row, col) ==
    IF col > Len(row) THEN rec
    ELSE CHOOSE out \in
            { FillRecord(next, mapping, row, col + 1) :
                next \in { IF col \in DOMAIN mapping /\ ~IsBlank(row[col])
                           THEN Put(rec, mapping[col], CellValue(mapping[col], row[col]))
                           ELSE rec } } : TRUE

\* rec of one data row; ridx is the row's index from 1, which is row_index
RowRecord(source_file, title, ridx, row, mapping) ==
    LET blank == [f \in BuildingFieldSet_H |-> None]
        base == [blank EXCEPT !["source_file"] = source_file,
                              !["sheet_name"] = title,
                              !["row_index"] = IntV(ridx)]
    IN FillRecord(base, mapping, row, 1)

\* bn_str.isdigit() or re.match(r"^\d+[A-Za-z]$", bn_str)
is_valid_bn(bn) ==
    /\ ~IsNone(bn)
    /\ LET bn_str == Strip(PyStr(bn)) IN
       \/ Len(bn_str) > 0 /\ AllDigits(bn_str)
       \/ /\ Len(bn_str) >= 2
          /\ AllDigits(SubSeq(bn_str, 1, Len(bn_str) - 1))
          /\ bn_str[Len(bn_str)] \in UpperChars \cup LowerChars

\* is_valid_bn and (addr or livable or units)
AcceptsRow(rec) ==
    /\ is_valid_bn(rec["building_number"])
    /\ \/ Truthy(rec["location_address"])
       \/ Truthy(rec["livable_sq_ft"])
       \/ Truthy(rec["num_units"])

\* a data row that is neither empty nor a totals row
IsDataRow(row) == (\E i \in 1..Len(row) : ~IsBlank(row[i])) /\ ~is_totals_row(row)

\* the rec dicts of the rows that pass the inclusion test, in row order
AcceptedRecs(source_file, sheet) ==
    LET header_idx == detect_header_row(sheet.rows) IN
    IF header_idx = NoHeader THEN << >>
    ELSE LET mapping == build_column_mapping(sheet.rows[header_idx])
             recs == [ridx \in 1..Len(sheet.rows) |->
                         RowRecord(source_file, sheet.title, ridx, sheet.rows[ridx], mapping)]
             kept == {ridx \in (header_idx + 1)..Len(sheet.rows) :
                         IsDataRow(sheet.rows[ridx]) /\ AcceptsRow(recs[ridx])}
             RECURSIVE Pick(_)
             Pick(ridx) ==
                 IF ridx > Len(sheet.rows) THEN << >>
                 ELSE (IF ridx \in kept THEN <<recs[ridx]>> ELSE << >>) \o Pick(ridx + 1)
         IN Pick(header_idx + 1)

\* [ok |-> FALSE] when BuildingRecord(**rec) raises TypeError
parse_buildings_from_sheet(source_file, sheet) ==
    LET recs == AcceptedRecs(source_file, sheet) IN
    IF \A i \in 1..Len(recs) :
          Constructs(BuildingRecordFields_H, BuildingRecordRequired_H, recs[i])
    THEN [ok |-> TRUE,
          records |-> [i \in 1..Len(recs) |-> NewRecord(BuildingRecordFields_H, recs[i])]]
    ELSE [ok |-> FALSE, records |-> << >>]

\* --- extract_property_info ---
\* the caps on the scanned region
MAX_SCAN_ROWS == 300
MAX_SCAN_COLS == 25

\* the field a label cell names: exact key, else the first key it contains
PropertyTarget(cell) ==
    IF ~IsLabel(cell) THEN NoField
    ELSE LET norm == normalize_header(cell.s) IN
         IF HasKey(PROPERTY_CELL_MAP, norm) THEN Lookup(PROPERTY_CELL_MAP, norm)
         ELSE LET hits == {i \in 1..Len(PROPERTY_CELL_MAP) :
                              Contains(norm, PROPERTY_CELL_MAP[i][1])}
              IN IF hits = {} THEN NoField ELSE PROPERTY_CELL_MAP[FirstOf(hits)][2]

_set_property_value(values, target, raw_value) ==
    IF IsNone(raw_value) THEN values
    ELSE IF target \in NUMERIC_PROPERTY_FIELDS
         THEN LET parsed == parse_numeric(raw_value) IN
              IF ~IsNone(parsed) THEN Put(values, target, parsed) ELSE values
    ELSE LET t == Strip(PyStr(raw_value)) IN
         IF t # << >> THEN Put(values, target, StrV(t)) ELSE values

\* the neighbour cells of (r, c) in the order they are collected: up to three
\* to the right, up to three below, then the 2 x 2 block below-right
NeighbourOffsets ==
    << <<0, 1>>, <<0, 2>>, <<0, 3>>, <<1, 0>>, <<2, 0>>, <<3, 0>>,
       <<1, 1>>, <<1, 2>>, <<2, 1>>, <<2, 2>> >>

\* the first neighbour value that is not in (None, ""), or None
FirstNeighbour(rows, r, c, max_r, max_c) ==
    LET found == {i \in 1..Len(NeighbourOffsets) :
                     LET rr == r + NeighbourOffsets[i][1]
                         cc == c + NeighbourOffsets[i][2]
                     IN rr <= max_r /\ cc <= max_c /\ ~IsBlank(rows[rr][cc])}
    IN IF found = {} THEN None
       ELSE LET o == NeighbourOffsets[FirstOf(found)] IN rows[r + o[1]][c + o[2]]

RECURSIVE LabelPass_last(_, _, _, _, _)
\* the label-driven scan writing a field whether or not it is set already
LabelPass_last(rows, max_r, max_c, k, values) ==
    IF k > max_r * max_c THEN values
    ELSE LET r == ((k - 1) \div max_c) + 1
             c == ((k - 1) % max_c) + 1
             target == PropertyTarget(rows[r][c])
             val == FirstNeighbour(rows, r, c, max_r, max_c)
         IN CHOOSE out \in
               { LabelPass_last(rows, max_r, max_c, k + 1, next) :
                   next \in { IF target # NoField /\ ~IsNone(val)
                              THEN _set_property_value(values, target, val)
                              ELSE values } } : TRUE

RECURSIVE LabelPass(_, _, _, _, _)
\* the label-driven scan from cell number k (row-major, from 1)
LabelPass(rows, max_r, max_c, k, values) ==
    IF k > max_r * max_c THEN values
    ELSE LET r == ((k - 1) \div max_c) + 1
             c == ((k - 1) % max_c) + 1
             target == PropertyTarget(rows[r][c])
             val == FirstNeighbour(rows, r, c, max_r, max_c)
         IN CHOOSE out \in
               { LabelPass(rows, max_r, max_c, k + 1, next) :
                   next \in { IF /\ target # NoField
                                 /\ ~IsNone(val)
                                 /\ IsNone(Get(values, target))
                              THEN _set_property_value(values, target, val)
                              ELSE values } } : TRUE

\* isinstance(v, (int, float)) or parse_numeric(v) is not None
IsNumericLike(v) == v.k \in {"int", "float"} \/ ~IsNone(parse_numeric(v))

RECURSIVE ValuePass(_, _, _, _, _)
\* the value-driven scan from cell number k; row 1 has no cell above it
ValuePass(rows, max_r, max_c, k, values) ==
    IF k > max_r * max_c THEN values
    ELSE LET r == ((k - 1) \div max_c) + 1
             c == ((k - 1) % max_c) + 1
             v == rows[r][c]
             target == IF r >= 2 /\ ~IsBlank(v) /\ IsNumericLike(v)
                       THEN PropertyTarget(rows[r - 1][c]) ELSE NoField
         IN CHOOSE out \in
               { ValuePass(rows, max_r, max_c, k + 1, next) :
                   next \in { IF target # NoField /\ IsNone(Get(values, target))
                              THEN _set_property_value(values, target, v)
                              ELSE values } } : TRUE

\* the values dict handed to PropertyRecord(**values)
PropertyValues(source_file, sheet, num_buildings) ==
    LET blank == [f \in PropertyFieldSet |-> None]
        start == [blank EXCEPT !["source_file"] = source_file,
                               !["sheet_name"] = sheet.title,
                               !["number_of_buildings"] = IntV(num_buildings)]
        max_r == Min(Len(sheet.rows), MAX_SCAN_ROWS)
        max_c == Min(Len(sheet.rows[1]), MAX_SCAN_COLS)
    IN CHOOSE out \in
          { ValuePass(sheet.rows, max_r, max_c, 1, labelled) :
              labelled \in { LabelPass(sheet.rows, max_r, max_c, 1, v) : v \in {start} } }
          : TRUE

\* [ok |-> FALSE] when PropertyRecord(**values) raises TypeError
extract_property_info(source_file, sheet, num_buildings) ==
    LET values == PropertyValues(source_file, sheet, num_buildings) IN
    IF Constructs(PropertyRecordFields, PropertyRecordRequired, values)
    THEN [ok |-> TRUE, record |-> NewRecord(PropertyRecordFields, values)]
    ELSE [ok |-> FALSE, record |-> EmptyDict]

\* b.building_number or f"{b.location_address}_{b.location_city}"
BuildingId(b) ==
    IF Truthy(b["building_number"]) THEN b["building_number"]
    ELSE StrV(PyStr(b["location_address"]) \o <<"_">> \o PyStr(b["location_city"]))

\* len(bldgs) in place of len(unique_bldg_ids)
CountBuildings_len(bldgs) == Len(bldgs)

\* len(unique_bldg_ids)
CountBuildings(bldgs) == Cardinality({BuildingId(bldgs[i]) : i \in 1..Len(bldgs)})

\* ---------------------------------------------------------------------
\* Inputs: strings, candidate records and agent responses
\* ---------------------------------------------------------------------
\* the texts that occur in cells and in candidate values, by name
Txt ==
    [
      n1 |-> <<"1">>,
      n2 |-> <<"2">>,
      n5 |-> <<"5">>,
      addr |-> <<"1", "3", "3", "6", "1", " ", "W", " ", "A", "l", "e", "p", "p", "o">>,
      addr_lc |-> <<"1", "3", "3", "6", "1", " ", "w", " ", "a", "l", "e", "p", "p", "o">>,
      thru |-> <<"1", " ", "t", "h", "r", "u", " ", "2", "0">>,
      n7015 |-> <<"7", ",", "0", "1", "5">>,
      phoenix |-> <<"P", "h", "o", "e", "n", "i", "x">>,
      scw |-> <<"S", "u", "n", " ", "C", "i", "t", "y", " ", "W", "e", "s", "t">>,
      az |-> <<"A", "Z">>,
      oh |-> <<"O", "H">>,
      zip |-> <<"8", "5", "3", "7", "5">>,
      full |-> <<"1", " ", "M", "a", "i", "n", " ", "S", "t", ",", " ", "M", "e", "s",
          "a", ",", " ", "A", "Z">>,
      file |-> <<"f", ".", "x", "l", "s", "x">>,
      note |-> <<"n", "/", "a">>,
      bldg |-> <<"B", "l", "d", "g", " ", "#">>,
      address |-> <<"A", "d", "d", "r", "e", "s", "s", ":">>,
      units |-> <<"#", " ", "o", "f", " ", " ", "U", "n", "i", "t", "s">>,
      livable |-> <<"L", "i", "v", "a", "b", "l", "e", " ", "S", "q", " ", "F", "t">>,
      notes |-> <<"N", "o", "t", "e", "s">>,
      total |-> <<"T", "o", "t", "a", "l">>,
      pool |-> <<"P", "o", "o", "l">>,
      b2a |-> <<"2", "A">>,
      n1200 |-> <<"1", ",", "2", "0", "0">>,
      summary |-> <<"S", "u", "m", "m", "a", "r", "y">>,
      roof |-> <<"R", "o", "o", "f", " ", "T", "y", "p", "e">>,
      tile |-> <<"T", "i", "l", "e">>,
      tiv |-> <<"T", "I", "V">>,
      gl |-> <<"G", "e", "n", "e", "r", "a", "l", " ", "L", "i", "a", "b", "i", "l", "i",
          "t", "y">>,
      v1m |-> <<"1", "M">>,
      title |-> <<"B", "l", "d", "g", "s">>,
      dash |-> <<"1", "-", "2", "0">>,
      to |-> <<"1", " ", "t", "o", " ", "2", "0">>,
      thru2 |-> <<"2", "1", " ", "t", "h", "r", "u", " ", "2", "8">>,
      addr_long |-> <<"1", "3", "3", "6", "1", " ", "W", " ", "A", "l", "e", "p", "p",
          "o", ",", " ", "S", "u", "n", " ", "C", "i", "t", "y", " ", "W", "e", "s",
          "t">>,
      num |-> <<"1", ",", "2", "4", "1", ",", "9", "8", "9">>,
      n7015_pad |-> <<" ", "7", ",", "0", "1", "5", " ">>,
      abc |-> <<"a", "b", "c">>,
      bldg_id |-> <<"B", "l", "d", "g", " ", "I", "D">>,
      unit_addr |-> <<"U", "n", "i", "t", " ", "A", "d", "d", "r", "e", "s", "s">>,
      bnum_id |-> <<"B", "u", "i", "l", "d", "i", "n", "g", " ", "N", "u", "m", "b", "e", "r",
          " ", "I", "D">>,
      addr_full |-> <<"1", "3", "3", "6", "1", " ", "W", " ", "A", "l", "e", "p", "p", "o", ",",
          " ", "S", "u", "n", " ", "C", "i", "t", "y", " ", "W", "e", "s", "t",
          ",", " ", "A", "Z", " ", "8", "5", "3", "7", "5">>,
      addr_plain |-> <<"1", "3", "3", "6", "1", " ", "w", " ", "a", "l", "e", "p", "p", "o", " ",
          "s", "u", "n", " ", "c", "i", "t", "y", " ", "w", "e", "s", "t", " ",
          "a", "z", " ", "8", "5", "3", "7", "5">>,
      addr_null |-> <<"1", "3", "3", "6", "1", " ", "W", " ", "A", "l", "e", "p", "p", "o", ",",
          " ", "n", "u", "l", "l", ",", " ", "n", "u", "l", "l">>,
      scw_wide |-> <<"S", "u", "n", " ", " ", "C", "i", "t", "y", " ", "W", "e", "s", "t", ".">>,
      ull |-> <<"u", "l", "l">>,
      nullx |-> <<"n", "u", "l", "l", "x">>,
      en_range |-> <<"1", EnDash, "2", "0">>,
      slate |-> <<"S", "l", "a", "t", "e">>,
      nbldgs |-> <<"N", "u", "m", "b", "e", "r", " ", "o", "f", " ", "B", "u", "i", "l", "d",
          "i", "n", "g", "s">> ]

\* candidate records an agent may return, by name
Cand ==
    [
      \* a building row without city, state and zip
      row1 |->
      ("building_number" :> StrV(Txt.n1)) @@ ("location_address" :> StrV(Txt.addr))
        @@ ("units_per_building" :> StrV(Txt.thru)) @@ ("livable_sq_ft" :> StrV(Txt.n7015))
        @@ ("replacement_cost_tiv" :> IntV(1241989)),
      \* the same row as another agent may report it: its own city, a bare
      \* unit count, and keys outside the canonical fields
      row1_alt |->
      ("building_number" :> IntV(1)) @@ ("location_address" :> StrV(Txt.addr_lc))
        @@ ("location_city" :> StrV(Txt.phoenix)) @@ ("units_per_building" :> StrV(Txt.n5))
        @@ ("livable_sq_ft" :> FloatV(701500)) @@ ("source_file" :> StrV(Txt.file))
        @@ ("notes" :> StrV(Txt.note)),
      \* a row whose location fields hold placeholders
      row2 |->
      ("building_number" :> StrV(Txt.n2)) @@ ("location_city" :> EmptyStr)
        @@ ("location_state" :> NullStr) @@ ("num_units" :> IntV(8)),
      \* the single candidate of a general sheet
      general1 |->
      ("location_full_address" :> StrV(Txt.full)) @@ ("location_city" :> StrV(Txt.scw))
        @@ ("location_state" :> StrV(Txt.az)) @@ ("location_zip" :> StrV(Txt.zip)),
      \* a general sheet's candidate with an empty city, a null zip, a 0 address
      \* and the text "null" for the full address
      general2 |->
      ("location_city" :> EmptyStr) @@ ("location_state" :> StrV(Txt.oh))
        @@ ("location_zip" :> None) @@ ("location_address" :> IntV(0))
        @@ ("location_full_address" :> NullStr),
      \* a candidate with every field null
      all_null |-> [f \in BuildingFieldSet |-> None] ]

\* the responses an agent call of parse_workbook may return
Responses ==
    { Response("building", TRUE, <<Cand.row1>>),
      Response("building", TRUE, <<Cand.row1_alt, Cand.row2>>),
      Response(NoType, TRUE, <<Cand.row1_alt>>),
      Response("general", TRUE, <<Cand.general1>>),
      Response("general", TRUE, <<Cand.general2>>),
      Response("general", TRUE, <<Cand.row1>>),
      Response("general", FALSE, << >>),
      Response("building", TRUE, <<Cand.all_null>>) }

\* --- sheets of a workbook given to the heuristic path ---
\* cell grids of a worksheet, by name
Grid ==
    [
      \* a building table: a header with one column that maps to no field, an
      \* accepted row, a totals row, a row without a building number, an accepted
      \* row with a letter suffix, and an empty row
      table |->
      << <<StrV(Txt.bldg), StrV(Txt.address), StrV(Txt.units), StrV(Txt.livable),
           StrV(Txt.notes)>>,
         <<StrV(Txt.n1), StrV(Txt.addr), IntV(4), IntV(7015), StrV(Txt.note)>>,
         <<StrV(Txt.total), None, IntV(8), None, None>>,
         <<StrV(Txt.pool), StrV(Txt.scw), None, None, None>>,
         <<StrV(Txt.b2a), None, IntV(0), StrV(Txt.n1200), None>>,
         <<None, None, None, None, None>> >>,
      \* a sheet without a header row
      no_header |->
      << <<StrV(Txt.summary), None>>,
         <<StrV(Txt.notes), StrV(Txt.note)>> >>,
      \* property labels above a building table
      props |->
      << <<StrV(Txt.roof), StrV(Txt.tile), StrV(Txt.gl), None>>,
         <<StrV(Txt.tiv), None, StrV(Txt.v1m), None>>,
         <<IntV(1241989), None, None, None>>,
         <<StrV(Txt.bldg), StrV(Txt.address), StrV(Txt.units), StrV(Txt.livable)>>,
         <<StrV(Txt.n1), None, StrV(Txt.n7015), None>>,
         <<IntV(2), StrV(Txt.addr), None, FloatV(701500)>> >>,
      \* a header only: no data row
      header_only |->
      << <<StrV(Txt.bldg), StrV(Txt.address)>> >>,
      \* rows with a building number and no address: zero area and units,
      \* a negative area, a negative unit count
      no_address |->
      << <<StrV(Txt.bldg), StrV(Txt.address), StrV(Txt.units), StrV(Txt.livable)>>,
         <<IntV(3), None, IntV(0), IntV(0)>>,
         <<IntV(4), None, IntV(0), IntV(-5)>>,
         <<StrV(Txt.n5), EmptyStr, FloatV(-100), None>> >>,
      \* no cell is a header synonym; two cells of the first row contain a keyword
      keywords |->
      << <<StrV(Txt.bldg_id), StrV(Txt.unit_addr)>>,
         <<StrV(Txt.n1), StrV(Txt.addr)>> >>,
      \* no cell is a header synonym; one cell of the first row contains a keyword
      one_keyword |->
      << <<StrV(Txt.bnum_id), StrV(Txt.unit_addr)>>,
         <<StrV(Txt.n1), StrV(Txt.addr)>> >>,
      \* a title row with one keyword, then two rows that reach the same score,
      \* the first by two keywords and the second by one header synonym
      \* a property label twice with different values, a label with a value
      \* beside it and another one under it, above a building table
      labels |->
      << <<StrV(Txt.roof), StrV(Txt.tile), StrV(Txt.roof), StrV(Txt.slate)>>,
         <<StrV(Txt.tiv), IntV(7), None, None>>,
         <<IntV(9), None, None, None>>,
         <<StrV(Txt.bldg), StrV(Txt.address), StrV(Txt.units), StrV(Txt.livable)>>,
         <<StrV(Txt.n1), StrV(Txt.addr), None, None>> >>,
      \* a "Number of Buildings" label with a value, above a table in which two
      \* rows have the same building number
      count |->
      << <<StrV(Txt.nbldgs), IntV(9)>>,
         <<StrV(Txt.bldg), StrV(Txt.address)>>,
         <<StrV(Txt.n1), StrV(Txt.addr)>>,
         <<IntV(1), StrV(Txt.scw)>>,
         <<StrV(Txt.n2), StrV(Txt.addr)>> >>,
      two_headers |->
      << <<StrV(Txt.unit_addr), None>>,
         <<StrV(Txt.bldg_id), StrV(Txt.unit_addr)>>,
         <<StrV(Txt.bldg), StrV(Txt.notes)>>,
         <<StrV(Txt.n1), StrV(Txt.addr)>> >> ]

Sheet(title, rows) == [title |-> title, rows |-> rows]

\* the worksheets wb[sheet_name] may be
Sheets ==
    { Sheet(StrV(Txt.title), Grid.table), Sheet(StrV(Txt.summary), Grid.no_header),
      Sheet(StrV(Txt.summary), Grid.props), Sheet(StrV(Txt.title), Grid.header_only),
      Sheet(StrV(Txt.title), Grid.no_address), Sheet(StrV(Txt.title), Grid.keywords),
      Sheet(StrV(Txt.title), Grid.one_keyword), Sheet(StrV(Txt.title), Grid.two_headers),
      Sheet(StrV(Txt.summary), Grid.labels), Sheet(StrV(Txt.title), Grid.count) }

\* the largest number of sheets of a workbook
MaxSheets == 2

\* ---------------------------------------------------------------------
\* State
\* ---------------------------------------------------------------------
VARIABLES
    parser,         \* which module's parse_workbook runs: "ai" or "heuristic"
    property_records,   \* heuristic path: the PropertyRecords collected so far
    building_records,   \* heuristic path: the BuildingRecords collected so far
    ws_log,         \* heuristic path, per sheet taken up: the worksheet, its
                    \* sheet_state, the header row detect_header_row reports for
                    \* it, the number of BuildingRecords found in it, these
                    \* records, and the PropertyRecord made for it if any
    run,            \* heuristic path: 1 in the first call of parse_workbook, 2
                    \* in a second call on the same workbook
    first_run,      \* heuristic path: the sheets and the result of the first call
    nSheets,        \* len(wb.sheetnames)
    sheet_idx,      \* the number of sheets the loop has taken up
    pc,             \* the position of parse_workbook
    ai_a, ai_b,     \* the two agents' responses for the current sheet
    all_buildings,  \* the BuildingRecords collected so far
    property_meta,  \* the per-workbook metadata map
    origin,         \* origin[i]: the sheet all_buildings[i] came from
    sheet_log,      \* per sheet taken up: what the agents said of it
    pre_inherit,    \* all_buildings as it was when the inheritance loop began
    in_key, in_v1, in_v2,   \* arguments of a field-level function under test
    in_a, in_b,             \* arguments of compare_model_outputs under test
    out_field,              \* what the merge loop body returned for one field
    out_equal,              \* what fuzzy_numeric_equal returned
    out_merged,             \* what compare_model_outputs returned
    step,                   \* "idle", or "ready" and then "done" (or the function's
                            \* name) for a function under test
    adapter,        \* the module whose call_sov_sheet_agent runs
    agent_pc,       \* its position: "idle", in the retry loop "call" or "verify",
                    \* "returned" or "raised"
    attempt,        \* the loop variable of the retry loop
    tries,          \* per attempt made: the loop and "ok" or the kind of exception
    slept,          \* the arguments of time.sleep, in tenths of a second
    agent_out       \* what call_sov_sheet_agent returned

aiVars == <<ai_a, ai_b, all_buildings, property_meta, origin, sheet_log, pre_inherit>>
heurVars == <<property_records, building_records, ws_log, run, first_run>>
wbVars == <<parser, nSheets, sheet_idx, pc, aiVars, heurVars>>
retryVars == <<adapter, agent_pc, attempt, tries, slept, agent_out>>
fnVars == <<in_key, in_v1, in_v2, in_a, in_b, out_field, out_equal, out_merged, step,
            retryVars>>
vars == <<wbVars, fnVars>>

NoResponse == Response(NoType, FALSE, << >>)

\* no call of the heuristic parse_workbook has returned yet
NoRun == [ws_log |-> << >>, property_records |-> << >>, building_records |-> << >>]

HiddenEntry ==
    [visible |-> FALSE, any_general |-> FALSE, split |-> FALSE, merged |-> NoType,
     first |-> << >>, off_schema |-> FALSE]

\* a candidate of the response has a key that BUILDING_FIELDS does not list
HasOffSchemaKey(r) ==
    \E i \in 1..Len(r.buildings) : ~(DOMAIN r.buildings[i] \subseteq BuildingFieldSet)

\* what is recorded of a visible sheet: whether an agent said "general",
\* whether one said "general" and the other "building", the merged sheet_type,
\* for a general sheet its first merged candidate, and whether a candidate of
\* either agent had a key outside BUILDING_FIELDS
VisibleEntry(a, b, merged) ==
    [visible |-> TRUE,
     any_general |-> ("general" \in {a.sheet_type, b.sheet_type}),
     split |-> ({a.sheet_type, b.sheet_type} = {"general", "building"}),
     merged |-> merged.sheet_type,
     first |-> IF merged.sheet_type = "general" /\ Len(merged.buildings) > 0
               THEN <<merged.buildings[1]>>
               ELSE << >>,
     off_schema |-> HasOffSchemaKey(a) \/ HasOffSchemaKey(b)]

NoMerged == [sheet_type |-> NoType, buildings |-> << >>]

\* no adapter call is under test
RetryIdle ==
    /\ adapter = "mapping_agent_single"
    /\ agent_pc = "idle"
    /\ attempt = 0
    /\ tries = << >>
    /\ slept = << >>
    /\ agent_out = NoResponse

FnNoResult ==
    /\ RetryIdle
    /\ out_field = [value |-> None, mismatch |-> FALSE]
    /\ out_equal = FALSE
    /\ out_merged = NoMerged

\* no function is under test
FnIdle ==
    /\ in_key = "building_number"
    /\ in_v1 = None
    /\ in_v2 = None
    /\ in_a = NoResponse
    /\ in_b = NoResponse
    /\ FnNoResult
    /\ step = "idle"

Init ==
    /\ parser \in {"ai", "heuristic"}
    /\ property_records = << >>
    /\ building_records = << >>
    /\ ws_log = << >>
    /\ run = 1
    /\ first_run = NoRun
    /\ nSheets \in 1..MaxSheets
    /\ sheet_idx = 0
    /\ pc = "loop"
    /\ ai_a = NoResponse
    /\ ai_b = NoResponse
    /\ all_buildings = << >>
    /\ property_meta = EmptyDict
    /\ origin = << >>
    /\ sheet_log = << >>
    /\ pre_inherit = << >>
    /\ FnIdle

\* a sheet whose sheet_state is not "visible" is skipped
SkipHiddenSheet ==
    /\ parser = "ai"
    /\ pc = "loop"
    /\ sheet_idx < nSheets
    /\ sheet_idx' = sheet_idx + 1
    /\ sheet_log' = Append(sheet_log, HiddenEntry)
    /\ UNCHANGED <<parser, heurVars, nSheets, pc, ai_a, ai_b, all_buildings, property_meta, origin,
                   pre_inherit>>
    /\ UNCHANGED fnVars

\* a visible sheet: its rows are read and the first agent is called
OpenSheet ==
    /\ parser = "ai"
    /\ pc = "loop"
    /\ sheet_idx < nSheets
    /\ sheet_idx' = sheet_idx + 1
    /\ pc' = "call_a"
    /\ UNCHANGED <<parser, heurVars, nSheets, ai_a, ai_b, all_buildings, property_meta, origin,
                   sheet_log, pre_inherit>>
    /\ UNCHANGED fnVars

\* call_sov_sheet_agent(..., model="gpt-5.1") returns
AgentAReturns ==
    /\ pc = "call_a"
    /\ \E r \in Responses : ai_a' = r
    /\ pc' = "call_b"
    /\ UNCHANGED <<parser, heurVars, nSheets, sheet_idx, ai_b, all_buildings, property_meta, origin,
                   sheet_log, pre_inherit>>
    /\ UNCHANGED fnVars

\* call_sov_sheet_agent(..., model="gpt-4o-mini") returns
AgentBReturns ==
    /\ pc = "call_b"
    /\ \E r \in Responses : ai_b' = r
    /\ pc' = "merge"
    /\ UNCHANGED <<parser, heurVars, nSheets, sheet_idx, ai_a, all_buildings, property_meta, origin,
                   sheet_log, pre_inherit>>
    /\ UNCHANGED fnVars

\* an agent call raises after its retries: parse_workbook has no handler
AgentRaises ==
    /\ pc \in {"call_a", "call_b"}
    /\ pc' = "raised"
    /\ UNCHANGED <<parser, heurVars, nSheets, sheet_idx, ai_a, ai_b, all_buildings, property_meta,
                   origin, sheet_log, pre_inherit>>
    /\ UNCHANGED fnVars

\* compare_model_outputs, then the general-sheet or the building-sheet branch
MergeSheet ==
    /\ pc = "merge"
    /\ LET merged == compare_model_outputs(ai_a, ai_b)
           added == SheetBuildings(merged)
       IN /\ property_meta' = SheetMeta(property_meta, merged)
          /\ all_buildings' = all_buildings \o added
          /\ origin' = origin \o [i \in 1..Len(added) |-> sheet_idx]
          /\ sheet_log' = Append(sheet_log, VisibleEntry(ai_a, ai_b, merged))
    /\ ai_a' = NoResponse
    /\ ai_b' = NoResponse
    /\ pc' = "loop"
    /\ UNCHANGED <<parser, heurVars, nSheets, sheet_idx, pre_inherit>>
    /\ UNCHANGED fnVars

\* the loop over wb.sheetnames is exhausted
EndOfSheets ==
    /\ parser = "ai"
    /\ pc = "loop"
    /\ sheet_idx = nSheets
    /\ pc' = "inherit"
    /\ UNCHANGED <<parser, heurVars, nSheets, sheet_idx, ai_a, ai_b, all_buildings, property_meta,
                   origin, sheet_log, pre_inherit>>
    /\ UNCHANGED fnVars

\* the inheritance loop over all_buildings, and the return
ApplyInheritance ==
    /\ pc = "inherit"
    /\ pre_inherit' = all_buildings
    /\ all_buildings' = [i \in 1..Len(all_buildings) |->
                            Inherit(all_buildings[i], property_meta)]
    /\ pc' = "done"
    /\ UNCHANGED <<parser, heurVars, nSheets, sheet_idx, ai_a, ai_b, property_meta, origin, sheet_log>>
    /\ UNCHANGED fnVars

\* the values of ws.sheet_state
SheetStates == {"visible", "hidden"}

\* what one iteration of the loop over wb.sheetnames computes for a worksheet:
\* the result of parse_buildings_from_sheet, of extract_property_info with
\* the number of distinct building ids, and the header row detect_header_row
\* reports; worked out once per worksheet of Sheets
SheetResult ==
    [ws \in Sheets |->
        CHOOSE out \in
           { [bldgs |-> bldgs,
              prop |-> extract_property_info(StrV(Txt.file), ws,
                                             CountBuildings(bldgs.records)),
              header |-> detect_header_row(ws.rows)] :
                 bldgs \in {parse_buildings_from_sheet(StrV(Txt.file), ws)} } : TRUE]

\* heuristic path, one iteration of the loop over wb.sheetnames:
\* parse_buildings_from_sheet and, if it found buildings, extract_property_info;
\* a second call reads the sheets the first call read
ParseSheet ==
    /\ parser = "heuristic"
    /\ pc = "loop"
    /\ sheet_idx < nSheets
    /\ sheet_idx' = sheet_idx + 1
    /\ \E ws \in Sheets, sheet_state \in SheetStates :
       (run = 2 => /\ ws = first_run.ws_log[sheet_idx + 1].ws
                   /\ sheet_state = first_run.ws_log[sheet_idx + 1].sheet_state) /\
       \E res \in {SheetResult[ws]} :
       \E bldgs \in {res.bldgs}, prop \in {res.prop} :
             IF ~bldgs.ok \/ (bldgs.records # << >> /\ ~prop.ok)
             THEN /\ pc' = "raised"
                  /\ UNCHANGED heurVars
             ELSE /\ pc' = "loop"
                  /\ ws_log' = Append(ws_log, [ws |-> ws, sheet_state |-> sheet_state,
                                                header |-> res.header,
                                                found |-> Len(bldgs.records),
                                                records |-> bldgs.records,
                                                prop |-> IF bldgs.records # << >>
                                                         THEN prop.record
                                                         ELSE EmptyDict])
                  /\ building_records' = building_records \o bldgs.records
                  /\ property_records' = IF bldgs.records # << >>
                                          THEN Append(property_records, prop.record)
                                          ELSE property_records
                  /\ UNCHANGED <<run, first_run>>
    /\ UNCHANGED <<parser, nSheets, aiVars>>
    /\ UNCHANGED fnVars

\* heuristic path: the loop is exhausted and the two lists are returned
ReturnRecords ==
    /\ parser = "heuristic"
    /\ pc = "loop"
    /\ sheet_idx = nSheets
    /\ pc' = "done"
    /\ UNCHANGED <<parser, nSheets, sheet_idx, aiVars, heurVars>>
    /\ UNCHANGED fnVars

\* parse_workbook is called again and its lists are not new ones
ParseAgain_carry_over ==
    /\ parser = "heuristic"
    /\ pc = "done"
    /\ run = 1
    /\ run' = 2
    /\ first_run' = [ws_log |-> ws_log, property_records |-> property_records,
                     building_records |-> building_records]
    /\ property_records' = property_records
    /\ building_records' = building_records
    /\ ws_log' = << >>
    /\ sheet_idx' = 0
    /\ pc' = "loop"
    /\ UNCHANGED <<parser, nSheets, aiVars>>
    /\ UNCHANGED fnVars

\* heuristic path: parse_workbook is called again on the same workbook; its
\* two lists are locals that start empty, and the module has no other state
ParseAgain ==
    /\ parser = "heuristic"
    /\ pc = "done"
    /\ run = 1
    /\ run' = 2
    /\ first_run' = [ws_log |-> ws_log, property_records |-> property_records,
                     building_records |-> building_records]
    /\ property_records' = << >>
    /\ building_records' = << >>
    /\ ws_log' = << >>
    /\ sheet_idx' = 0
    /\ pc' = "loop"
    /\ UNCHANGED <<parser, nSheets, aiVars>>
    /\ UNCHANGED fnVars

Next ==
    \/ SkipHiddenSheet
    \/ OpenSheet
    \/ AgentAReturns
    \/ AgentBReturns
    \/ AgentRaises
    \/ MergeSheet
    \/ EndOfSheets
    \/ ApplyInheritance
    \/ ParseSheet
    \/ ReturnRecords
    \/ ParseAgain

Spec == Init /\ [][Next]_vars

\* ---------------------------------------------------------------------
\* The merge functions on their own: inputs drawn from bounded sets
\* ---------------------------------------------------------------------
\* values of one field as two agents may report it
FieldValues ==
    { None, EmptyStr, NullStr,
      StrV(Txt.n5), IntV(5), StrV(Txt.n2),
      StrV(Txt.thru), StrV(Txt.dash), StrV(Txt.to), StrV(Txt.thru2),
      StrV(Txt.addr), StrV(Txt.addr_lc), StrV(Txt.addr_long), StrV(Txt.scw), StrV(Txt.phoenix),
      IntV(1241989), FloatV(124198860), IntV(1240000), StrV(Txt.num) }

\* values for the numeric comparison; no float has a hundredths digit of 5,
\* where round(x, 1) depends on the binary representation
NumValues ==
    { None, EmptyStr, StrV(Txt.abc), StrV(Txt.thru),
      IntV(1241989), FloatV(124198860), IntV(1240000), StrV(Txt.num),
      IntV(1000), FloatV(100054), FloatV(100001), FloatV(99946),
      IntV(5), FloatV(550), FloatV(551), StrV(Txt.n5), IntV(-5),
      FloatV(-100054), FloatV(-100001),
      StrV(Txt.n7015_pad), FloatV(701500) }

\* the longest candidate list of a response given to compare_model_outputs
MaxRows == 2

CompareCands == {Cand.row1, Cand.row1_alt, Cand.general2}

CompareLists == UNION {[1..n -> CompareCands] : n \in 0..MaxRows}

CompareResponses ==
    {Response(t, TRUE, rows) : t \in SheetTypes \cup {NoType}, rows \in CompareLists}
      \cup {NoResponse}

WbIdle ==
    /\ parser = "ai"
    /\ property_records = << >>
    /\ building_records = << >>
    /\ ws_log = << >>
    /\ run = 1
    /\ first_run = NoRun
    /\ nSheets = 0
    /\ sheet_idx = 0
    /\ pc = "idle"
    /\ ai_a = NoResponse
    /\ ai_b = NoResponse
    /\ all_buildings = << >>
    /\ property_meta = EmptyDict
    /\ origin = << >>
    /\ sheet_log = << >>
    /\ pre_inherit = << >>

\* --- one field of one candidate pair through the merge loop body ---
InitField ==
    /\ WbIdle
    /\ in_key \in BuildingFieldSet
    /\ in_v1 \in FieldValues
    /\ in_v2 \in FieldValues
    /\ in_a = NoResponse
    /\ in_b = NoResponse
    /\ FnNoResult
    /\ step = "ready"

MergeOneField ==
    /\ step = "ready"
    /\ out_field' = MergeField(in_key, in_v1, in_v2)
    /\ step' = "done"
    /\ UNCHANGED <<wbVars, retryVars, in_key, in_v1, in_v2, in_a, in_b, out_equal, out_merged>>

NextField == MergeOneField

SpecField == InitField /\ [][NextField]_vars

\* --- fuzzy_numeric_equal ---
InitNum ==
    /\ WbIdle
    /\ in_key = "building_number"
    /\ in_v1 \in NumValues
    /\ in_v2 \in NumValues
    /\ in_a = NoResponse
    /\ in_b = NoResponse
    /\ FnNoResult
    /\ step = "ready"

CompareNumeric ==
    /\ step = "ready"
    /\ out_equal' = fuzzy_numeric_equal(in_v1, in_v2)
    /\ step' = "done"
    /\ UNCHANGED <<wbVars, retryVars, in_key, in_v1, in_v2, in_a, in_b, out_field, out_merged>>

NextNum == CompareNumeric

SpecNum == InitNum /\ [][NextNum]_vars

\* --- compare_model_outputs on two whole responses ---
InitCompare ==
    /\ WbIdle
    /\ in_key = "building_number"
    /\ in_v1 = None
    /\ in_v2 = None
    /\ in_a \in CompareResponses
    /\ in_b \in CompareResponses
    /\ FnNoResult
    /\ step = "ready"

CompareOutputs ==
    /\ step = "ready"
    /\ out_merged' = compare_model_outputs(in_a, in_b)
    /\ step' = "done"
    /\ UNCHANGED <<wbVars, retryVars, in_key, in_v1, in_v2, in_a, in_b, out_field, out_equal>>

NextCompare == CompareOutputs

SpecCompare == InitCompare /\ [][NextCompare]_vars

\* =====================================================================
\* Properties
\* =====================================================================

\* ---------------------------------------------------------------------
\* C1, as stated: the merged classification is "general" if either agent
\* reports "general", and "building" only when both report "building".
\* ---------------------------------------------------------------------
C1_AsStated ==
    step = "done" =>
        /\ ("general" \in {in_a.sheet_type, in_b.sheet_type}
               => out_merged.sheet_type = "general")
        /\ (out_merged.sheet_type = "building"
               => in_a.sheet_type = "building" /\ in_b.sheet_type = "building")

\* C1, amended: the merged classification is "general" exactly when at least
\* one agent reports "general"; in every other case, a response without a
\* sheet_type included, it is "building".
C1_ClassificationMerge ==
    step = "done" =>
        /\ ("general" \in {in_a.sheet_type, in_b.sheet_type}
               => out_merged.sheet_type = "general")
        /\ ("general" \notin {in_a.sheet_type, in_b.sheet_type}
               => out_merged.sheet_type = "building")

C1_Witness ==
    /\ step = "done"
    /\ in_a.sheet_type = "general"
    /\ in_b.sheet_type = "building"
    /\ Len(in_b.buildings) > 0
    /\ out_merged.sheet_type = "general"

\* ---------------------------------------------------------------------
\* C2: no building record comes from a sheet whose merged classification
\* is "general", that is, from a sheet one of the agents called "general".
\* ---------------------------------------------------------------------
C2_GeneralSheetYieldsNoBuilding ==
    \A i \in 1..Len(all_buildings) :
        LET e == sheet_log[origin[i]] IN
        /\ e.visible
        /\ ~e.any_general
        /\ e.merged # "general"

C2_Witness ==
    /\ pc = "done"
    /\ Len(all_buildings) > 0
    /\ \E g \in 1..Len(sheet_log) :
          /\ sheet_log[g].split
          /\ Len(sheet_log[g].first) > 0
          /\ \A i \in 1..Len(origin) : origin[i] # g

\* ---------------------------------------------------------------------
\* C3: the inheritance step sets a field of a building to the accumulated
\* value exactly when the map holds the field and the field is null or
\* empty on the record; a field with a value keeps it.
\* ---------------------------------------------------------------------
NullOrEmpty(v) == IsNone(v) \/ v = EmptyStr

C3_InheritanceFillsOnlyNull ==
    pc = "done" =>
        /\ Len(all_buildings) = Len(pre_inherit)
        /\ \A i \in 1..Len(all_buildings) : \A f \in BuildingFieldSet :
              LET before == pre_inherit[i][f]
                  after == all_buildings[i][f]
              IN /\ (f \in DOMAIN property_meta /\ NullOrEmpty(before))
                        => after = property_meta[f]
                 /\ ~(f \in DOMAIN property_meta /\ NullOrEmpty(before))
                        => after = before
                 /\ ~NullOrEmpty(before) => after = before

C3_Witness ==
    /\ pc = "done"
    /\ \E i \in 1..Len(all_buildings) :
          /\ "location_city" \in DOMAIN property_meta
          /\ ~NullOrEmpty(pre_inherit[i]["location_city"])
          /\ pre_inherit[i]["location_city"] # property_meta["location_city"]
          /\ all_buildings[i]["location_city"] = pre_inherit[i]["location_city"]
          /\ "location_zip" \in DOMAIN property_meta
          /\ IsNone(pre_inherit[i]["location_zip"])
          /\ all_buildings[i]["location_zip"] = property_meta["location_zip"]

\* ---------------------------------------------------------------------
\* C4: until the loop over the sheets has ended no record of all_buildings
\* is changed, and in the result a building that had no city holds the city
\* of the last general sheet that gave one, wherever that sheet stands in the
\* workbook.
\* ---------------------------------------------------------------------
\* the general sheets whose first merged candidate gives a truthy value for f
GeneralWith(f) ==
    {g \in 1..Len(sheet_log) :
        /\ sheet_log[g].merged = "general"
        /\ Len(sheet_log[g].first) > 0
        /\ Truthy(Get(sheet_log[g].first[1], f))}

SetMax(S) == CHOOSE x \in S : \A y \in S : y <= x

C4_NoChangeBeforeEnd ==
    pc # "inherit" =>
        /\ Len(all_buildings') >= Len(all_buildings)
        /\ SubSeq(all_buildings', 1, Len(all_buildings)) = all_buildings

C4_CityReceived ==
    pc = "done" =>
        \A i \in 1..Len(all_buildings) :
            (IsNone(pre_inherit[i]["location_city"]) /\ GeneralWith("location_city") # {})
                => all_buildings[i]["location_city"]
                     = Get(sheet_log[SetMax(GeneralWith("location_city"))].first[1],
                           "location_city")

C4_InheritanceOrdering == [][C4_NoChangeBeforeEnd]_vars /\ []C4_CityReceived

C4_Witness ==
    /\ pc = "done"
    /\ \E i \in 1..Len(all_buildings) : \E g \in GeneralWith("location_city") :
          /\ origin[i] < g
          /\ IsNone(pre_inherit[i]["location_city"])
          /\ all_buildings[i]["location_city"]
               = Get(sheet_log[g].first[1], "location_city")

\* ---------------------------------------------------------------------
\* C5, as stated: for each location key the map holds the value of the last
\* general sheet whose candidate has a non-null value for the key.
\* ---------------------------------------------------------------------
GeneralNonNull(f) ==
    {g \in 1..Len(sheet_log) :
        /\ sheet_log[g].merged = "general"
        /\ Len(sheet_log[g].first) > 0
        /\ ~IsNone(Get(sheet_log[g].first[1], f))}

C5_AsStated ==
    \A f \in LOCATION_KEYS :
        IF GeneralNonNull(f) = {} THEN f \notin DOMAIN property_meta
        ELSE /\ f \in DOMAIN property_meta
             /\ property_meta[f] = Get(sheet_log[SetMax(GeneralNonNull(f))].first[1], f)

\* C5, amended: for each location key the map holds the value of the last
\* general sheet whose first merged candidate has a non-empty (truthy) value
\* for the key: a later null, empty string or zero erases nothing.
C5_MetadataAccumulation ==
    \A f \in LOCATION_KEYS :
        IF GeneralWith(f) = {} THEN f \notin DOMAIN property_meta
        ELSE /\ f \in DOMAIN property_meta
             /\ property_meta[f] = Get(sheet_log[SetMax(GeneralWith(f))].first[1], f)

C5_Witness ==
    /\ Cardinality(GeneralWith("location_state")) = 2
    /\ Cardinality(GeneralWith("location_zip")) = 1
    /\ SetMax(GeneralWith("location_zip")) < SetMax(GeneralWith("location_state"))
    /\ IsNone(Get(sheet_log[SetMax(GeneralWith("location_state"))].first[1], "location_zip"))
    /\ property_meta["location_zip"] = StrV(Txt.zip)
    /\ property_meta["location_state"] = StrV(Txt.oh)

\* ---------------------------------------------------------------------
\* C6: the merged value of a field is null when both values are null, the
\* non-null value when exactly one is null, the first agent's value when both
\* are non-null and fuzzy-equal, and the richer value when both are non-null
\* and fuzzy-unequal; a disagreement is recorded in the last case only.
\* ---------------------------------------------------------------------
BothGiven == ~IsNone(in_v1) /\ ~IsNone(in_v2)

C6_FieldMerge ==
    step = "done" =>
        /\ (IsNone(in_v1) /\ IsNone(in_v2)) => IsNone(out_field.value)
        /\ (IsNone(in_v1) /\ ~IsNone(in_v2)) => out_field.value = in_v2
        /\ (~IsNone(in_v1) /\ IsNone(in_v2)) => out_field.value = in_v1
        /\ (BothGiven /\ _fuzzy_equal(in_v1, in_v2)) => out_field.value = in_v1
        /\ (BothGiven /\ ~_fuzzy_equal(in_v1, in_v2))
              => out_field.value = choose_richer_value(in_key, in_v1, in_v2)
        /\ out_field.mismatch <=> (BothGiven /\ ~_fuzzy_equal(in_v1, in_v2))

C6_Witness ==
    /\ step = "done"
    /\ in_key = "location_address"
    /\ in_v1 = StrV(Txt.addr)
    /\ in_v2 = StrV(Txt.phoenix)
    /\ out_field = [value |-> StrV(Txt.addr), mismatch |-> TRUE]

\* ---------------------------------------------------------------------
\* C7: candidates are paired by position; the merged list is as long as the
\* longer of the two lists, and a merged record at an index beyond the
\* shorter list equals, on every canonical field, the longer list's candidate
\* at that index.
\* ---------------------------------------------------------------------
GivenRows(r) == IF r.has_buildings THEN r.buildings ELSE << >>

C7_PositionalPairing ==
    step = "done" =>
        LET ra == GivenRows(in_a)
            rb == GivenRows(in_b)
            longer == IF Len(ra) >= Len(rb) THEN ra ELSE rb
            shorter == IF Len(ra) >= Len(rb) THEN rb ELSE ra
        IN /\ Len(out_merged.buildings) = Len(longer)
           /\ \A idx \in (Len(shorter) + 1)..Len(longer) : \A key \in BuildingFieldSet :
                 out_merged.buildings[idx][key] = Get(longer[idx], key)

C7_Witness ==
    /\ step = "done"
    /\ Len(GivenRows(in_a)) = 1
    /\ Len(GivenRows(in_b)) = 2
    /\ Len(out_merged.buildings) = 2
    /\ in_b.buildings[2] = Cand.row1
    /\ out_merged.buildings[2]["location_address"] = StrV(Txt.addr)

\* ---------------------------------------------------------------------
\* C8: merging units_per_building, a bare count against a range (a value
\* containing " to ", a dash, a comma or "thru") gives the range, whichever
\* agent supplied which.
\* ---------------------------------------------------------------------
IsRangeText(v) ==
    /\ ~IsNone(v)
    /\ \/ Contains(PyStr(v), <<" ", "t", "o", " ">>)
       \/ Contains(PyStr(v), <<"-">>)
       \/ Contains(PyStr(v), <<",">>)
       \/ Contains(Lower(PyStr(v)), <<"t", "h", "r", "u">>)

\* a non-negative whole number, as an int or as a string of digits
IsBareCount(v) ==
    \/ v.k = "int" /\ v.n >= 0
    \/ v.k = "str" /\ Len(v.s) > 0 /\ AllDigits(v.s)

C8_UnitRangePreferred ==
    (step = "done" /\ in_key = "units_per_building") =>
        /\ (IsBareCount(in_v1) /\ IsRangeText(in_v2)) => out_field.value = in_v2
        /\ (IsRangeText(in_v1) /\ IsBareCount(in_v2)) => out_field.value = in_v1

\* ---------------------------------------------------------------------
\* C9: two values that both parse as numbers are numerically equal exactly
\* when, both rounded to one decimal if the magnitude of the first exceeds
\* 1000, they differ by at most 0.5; a value that does not parse makes the
\* test fail.  1241989 and 1241988.6 are equal, 1241989 and 1240000 are not.
\* ---------------------------------------------------------------------
Within(x, y, d) == x - y <= d /\ y - x <= d

C9_FuzzyNumericEqual ==
    step = "done" =>
        LET fa == _to_float_if_possible(in_v1)
            fb == _to_float_if_possible(in_v2)
        IN /\ (~fa.ok \/ ~fb.ok) => out_equal = FALSE
           /\ (fa.ok /\ fb.ok /\ (fa.c > 100000 \/ fa.c < -100000))
                 => (out_equal <=> Within(RoundTenth(fa.c), RoundTenth(fb.c), 50))
           /\ (fa.ok /\ fb.ok /\ fa.c <= 100000 /\ fa.c >= -100000)
                 => (out_equal <=> Within(fa.c, fb.c, 50))
           /\ (in_v1 = IntV(1241989) /\ in_v2 = FloatV(124198860)) => out_equal = TRUE
           /\ (in_v1 = IntV(1241989) /\ in_v2 = IntV(1240000)) => out_equal = FALSE

\* rounding decides: 1000.54 and 1000.01 differ by 0.53, 1000.5 and 1000.0 by 0.5
C9_Witness ==
    /\ step = "done"
    /\ in_v1 = FloatV(100054)
    /\ in_v2 = FloatV(100001)
    /\ out_equal = TRUE

C10_HeuristicCase ==
    /\ parser = "heuristic"
    /\ pc = "done"
    /\ \E i \in 1..Len(building_records) :
          /\ building_records[i]["sheet_name"] = StrV(Txt.title)
          /\ IsNone(building_records[i]["location_city"])
    /\ property_records # << >>

\* ---------------------------------------------------------------------
\* C11: in every emitted record a field that the record's schema declares
\* numeric holds a number or None, never text.  The schema of a record is its
\* dataclass; a field is declared numeric when its annotation is
\* Optional[float] or Optional[int].
\* ---------------------------------------------------------------------
\* the numeric fields of the dual-agent BuildingRecord dataclass
BuildingRecordNumeric ==
    {"units_per_building", "replacement_cost_tiv", "num_units", "livable_sq_ft",
     "garage_sq_ft"}

\* the numeric fields of the heuristic dataclasses
RecordNumeric_H ==
    [ property |-> PropertyRecordFields
                     \ {"source_file", "sheet_name", "roof_type", "building_valuation_type"},
      building |-> {"lat", "long", "units_per_building", "replacement_cost_tiv",
                    "num_units", "livable_sq_ft", "garage_sq_ft", "commercial_sq_ft",
                    "year_of_construction", "number_of_stories"} ]

NumberOrNone(v) == v.k \in {"int", "float", "none"}

C11_NumericTyping ==
    /\ \A i \in 1..Len(all_buildings) : \A f \in BuildingRecordNumeric :
          NumberOrNone(all_buildings[i][f])
    /\ \A i \in 1..Len(building_records) : \A f \in RecordNumeric_H.building :
          NumberOrNone(building_records[i][f])
    /\ \A i \in 1..Len(property_records) : \A f \in RecordNumeric_H.property :
          NumberOrNone(property_records[i][f])

\* ---------------------------------------------------------------------
\* The two coercion functions on their own
\* ---------------------------------------------------------------------
\* cell values and candidate values given to parse_numeric and _coerce_float
CoerceValues ==
    { None, EmptyStr, NullStr, IntV(0), IntV(4), IntV(5), IntV(-5), IntV(1000),
      IntV(7015), IntV(1241989), FloatV(701500), FloatV(124198860), FloatV(550),
      FloatV(-100054),
      StrV(<<"$", "1", ",", "2", "4", "1", ",", "9", "8", "9">>),
      StrV(<<"$", "5">>),
      StrV(<<"1", ",", "2", "4", "1", ",", "9", "8", "9">>),
      StrV(<<" ", "7", ",", "0", "1", "5", " ">>),
      StrV(<<"7", ",", "0", "1", "5">>),
      StrV(<<"n", "/", "a">>),
      StrV(<<"-">>),
      StrV(<<"-", "-">>),
      StrV(<<"n", "o", "n", "e">>),
      StrV(<<"5">>),
      StrV(<<"2">>),
      StrV(<<"a", "b", "c">>),
      StrV(<<"1", " ", "t", "h", "r", "u", " ", "2", "0">>),
      StrV(<<"1", "-", "2", "0">>),
      StrV(<<"1", "M">>),
      StrV(<<"1", ",", "2", "0", "0">>),
      StrV(<<"A", "Z">>),
      StrV(<<"1", ".", "5">>),
      StrV(<<"-", "3">>),
      StrV(<<"+", "4">>),
      StrV(<<".", "5">>),
      StrV(<<"7", "0", "1", "5", ".", "0">>),
      StrV(<<"1", ",", "2", ",", "3">>),
      StrV(<<",">>),
      StrV(<<"0">>),
      StrV(<<"1", "2", "B">>),
      StrV(<<"$">>),
      StrV(<<"1", " ", "0">>) }

InitCoerce ==
    /\ WbIdle
    /\ in_key = "building_number"
    /\ in_v1 \in CoerceValues
    /\ in_v2 = None
    /\ in_a = NoResponse
    /\ in_b = NoResponse
    /\ FnNoResult
    /\ step = "ready"

\* parse_numeric(in_v1)
ParseNumeric ==
    /\ step = "ready"
    /\ out_field' = [value |-> parse_numeric(in_v1), mismatch |-> FALSE]
    /\ step' = "parse_numeric"
    /\ UNCHANGED <<wbVars, retryVars, in_key, in_v1, in_v2, in_a, in_b, out_equal, out_merged>>

\* _coerce_float(in_v1)
CoerceFloat ==
    /\ step = "ready"
    /\ out_field' = [value |-> _coerce_float(in_v1), mismatch |-> FALSE]
    /\ step' = "_coerce_float"
    /\ UNCHANGED <<wbVars, retryVars, in_key, in_v1, in_v2, in_a, in_b, out_equal, out_merged>>

NextCoerce == ParseNumeric \/ CoerceFloat

SpecCoerce == InitCoerce /\ [][NextCoerce]_vars

\* ---------------------------------------------------------------------
\* C12: both coercion functions give 1241989.0 for "$1,241,989" and for
\* "1,241,989", and None for "n/a", "-", "" and "null".
\* ---------------------------------------------------------------------
C12_TolerantCoercion ==
    step \in {"parse_numeric", "_coerce_float"} =>
       /\ in_v1 \in {StrV(<<"$", "1", ",", "2", "4", "1", ",", "9", "8", "9">>), StrV(<<"1", ",", "2", "4", "1", ",", "9", "8", "9">>)}
             => out_field.value = FloatV(124198900)
       /\ in_v1 \in {StrV(<<"n", "/", "a">>), StrV(<<"-">>), EmptyStr, NullStr}
             => out_field.value = None

\* ---------------------------------------------------------------------
\* C13: the heuristic path emits a Building Record only for a row whose
\* building number is an integer, or an integer followed by one letter, and
\* that has a non-empty address, a positive livable area or a positive unit
\* count; a row with a valid number, no address and a zero or negative area
\* and unit count is rejected.
\* ---------------------------------------------------------------------
Positive(v) == (v.k = "int" /\ v.n > 0) \/ (v.k = "float" /\ v.c > 0)

C13_RowAcceptanceGate ==
    \A i \in 1..Len(building_records) :
        LET b == building_records[i] IN
        /\ is_valid_bn(b["building_number"])
        /\ \/ (IsText(b["location_address"]) /\ b["location_address"] # EmptyStr)
           \/ Positive(b["livable_sq_ft"])
           \/ Positive(b["num_units"])

\* ---------------------------------------------------------------------
\* C14: every Building Record the dual-agent path returns has a valid
\* building number and at least one of address, livable area and unit count;
\* a merged candidate without them, such as a candidate that both agents
\* returned with every field null, is not in the output.
\* ---------------------------------------------------------------------
C14_AcceptanceInvariant ==
    pc = "done" =>
       \A i \in 1..Len(all_buildings) :
          LET b == all_buildings[i] IN
          /\ is_valid_bn(b["building_number"])
          /\ \/ Truthy(b["location_address"])
             \/ Truthy(b["livable_sq_ft"])
             \/ Truthy(b["num_units"])

\* ---------------------------------------------------------------------
\* C15: a sheet yields no Building Record in the heuristic path when no row of
\* it reaches the header score 2, that is, when no cell is a header synonym
\* and no row has two cells that contain a header keyword.
\* ---------------------------------------------------------------------
NoSynonymMatch(rows) ==
    \A r \in 1..Len(rows) : \A c \in 1..Len(rows[r]) :
        ~(IsLabel(rows[r][c])
            /\ HasKey(BUILDING_HEADER_MAP, normalize_header(rows[r][c].s)))

\* as stated: no header synonym in the sheet, whatever keyword-like cells it has
C15_AsStated ==
    \A i \in 1..Len(ws_log) :
        NoSynonymMatch(ws_log[i].ws.rows) => ws_log[i].found = 0

C15_HeaderThreshold ==
    \A i \in 1..Len(ws_log) :
        (\A r \in 1..Len(ws_log[i].ws.rows) : RowScore(ws_log[i].ws.rows[r]) < 2)
            => ws_log[i].found = 0

\* a sheet whose first row has one keyword cell and whose columns would map to
\* building_number and location_address was taken up, and gave no record
C15_Witness ==
    /\ pc = "done"
    /\ \E i \in 1..Len(ws_log) :
          /\ ws_log[i].ws.rows = Grid.one_keyword
          /\ RowScore(Grid.one_keyword[1]) = 1
          /\ DOMAIN build_column_mapping(Grid.one_keyword[1]) = {1, 2}
          /\ ws_log[i].found = 0

\* ---------------------------------------------------------------------
\* call_sov_sheet_agent on its own: the retry loops
\* ---------------------------------------------------------------------
\* range(3)
MAX_ATTEMPTS == 3

\* the argument of time.sleep in tenths of a second, per module
BACKOFF == [mapping_agent_single |-> 12, mapping_agent |-> 15]

\* what an attempt may raise: the API call fails, or the text is not JSON
ErrorKinds == {"api_error", "invalid_json"}

\* the retry loops of a module, in order
Loops(a) == IF a = "mapping_agent" THEN <<"call", "verify">> ELSE <<"call">>

InitRetry ==
    /\ WbIdle
    /\ in_key = "building_number"
    /\ in_v1 = None
    /\ in_v2 = None
    /\ in_a = NoResponse
    /\ in_b = NoResponse
    /\ out_field = [value |-> None, mismatch |-> FALSE]
    /\ out_equal = FALSE
    /\ out_merged = NoMerged
    /\ step = "idle"
    /\ adapter \in {"mapping_agent_single", "mapping_agent"}
    /\ agent_pc = "call"
    /\ attempt = 0
    /\ tries = << >>
    /\ slept = << >>
    /\ agent_out = NoResponse

\* _call_openai_with_optional_json returns the dict r: mapping_agent_single
\* returns it as it is; mapping_agent goes on to its second loop and returns
\* the "buildings" list of the second dict (its "properties" are left out here)
AttemptReturns ==
    /\ agent_pc \in {"call", "verify"}
    /\ \E r \in Responses :
          /\ tries' = Append(tries, [loop |-> agent_pc, outcome |-> "ok"])
          /\ IF adapter = "mapping_agent" /\ agent_pc = "call"
             THEN /\ agent_pc' = "verify"
                  /\ attempt' = 0
                  /\ agent_out' = agent_out
             ELSE /\ agent_pc' = "returned"
                  /\ attempt' = attempt
                  /\ agent_out' = IF adapter = "mapping_agent"
                                  THEN Response(NoType, TRUE, RowsOf(r))
                                  ELSE r
    /\ UNCHANGED <<wbVars, in_key, in_v1, in_v2, in_a, in_b, out_field, out_equal,
                   out_merged, step, adapter, slept>>

\* the retry loop one attempt further
AttemptRaises_four ==
    /\ agent_pc \in {"call", "verify"}
    /\ \E e \in ErrorKinds :
          tries' = Append(tries, [loop |-> agent_pc, outcome |-> e])
    /\ IF attempt = MAX_ATTEMPTS
       THEN /\ agent_pc' = "raised"
            /\ UNCHANGED <<attempt, slept>>
       ELSE /\ slept' = Append(slept, BACKOFF[adapter])
            /\ attempt' = attempt + 1
            /\ agent_pc' = agent_pc
    /\ UNCHANGED <<wbVars, in_key, in_v1, in_v2, in_a, in_b, out_field, out_equal,
                   out_merged, step, adapter, agent_out>>

\* _call_openai_with_optional_json raises: the last attempt re-raises, any
\* other sleeps and the loop goes on
AttemptRaises ==
    /\ agent_pc \in {"call", "verify"}
    /\ \E e \in ErrorKinds :
          tries' = Append(tries, [loop |-> agent_pc, outcome |-> e])
    /\ IF attempt = MAX_ATTEMPTS - 1
       THEN /\ agent_pc' = "raised"
            /\ UNCHANGED <<attempt, slept>>
       ELSE /\ slept' = Append(slept, BACKOFF[adapter])
            /\ attempt' = attempt + 1
            /\ agent_pc' = agent_pc
    /\ UNCHANGED <<wbVars, in_key, in_v1, in_v2, in_a, in_b, out_field, out_equal,
                   out_merged, step, adapter, agent_out>>

NextRetry == AttemptReturns \/ AttemptRaises

SpecRetry == InitRetry /\ [][NextRetry]_vars

\* ---------------------------------------------------------------------
\* C16: for one request (one retry loop) call_sov_sheet_agent makes at most
\* 3 attempts; it sleeps the same fixed time after every failed attempt but
\* the third; an attempt that succeeds is the last of its loop; and when the
\* three attempts of a loop have failed the call raises and returns nothing.
\* ---------------------------------------------------------------------
TriesOf(loop) == {i \in 1..Len(tries) : tries[i].loop = loop}
FailedOf(loop) == {i \in TriesOf(loop) : tries[i].outcome # "ok"}

C16_BoundedRetry ==
    /\ \A loop \in {"call", "verify"} :
          /\ Cardinality(TriesOf(loop)) <= 3
          /\ \A i \in TriesOf(loop) :
                tries[i].outcome = "ok" => \A j \in TriesOf(loop) : j <= i
    /\ \A i \in 1..Len(slept) : slept[i] = BACKOFF[adapter]
    /\ Len(slept) = Cardinality({i \in 1..Len(tries) :
                         /\ tries[i].outcome # "ok"
                         /\ Cardinality({j \in FailedOf(tries[i].loop) : j <= i}) < 3})
    /\ agent_pc = "raised" <=> \E loop \in {"call", "verify"} :
                                    Cardinality(FailedOf(loop)) = 3
    /\ agent_pc = "raised" => agent_out = NoResponse
    /\ agent_pc = "returned" =>
          /\ tries[Len(tries)].outcome = "ok"
          /\ agent_out \in Responses \cup {Response(NoType, TRUE, RowsOf(r)) : r \in Responses}

\* two attempts failed and the third returned the service's dict
C16_Witness ==
    /\ adapter = "mapping_agent_single"
    /\ agent_pc = "returned"
    /\ Len(tries) = 3
    /\ slept = <<12, 12>>
    /\ agent_out = Response("building", TRUE, <<Cand.row1>>)

\* three attempts failed
C16_Raised ==
    /\ agent_pc = "raised"
    /\ Len(tries) = 3
    /\ slept = <<12, 12>>


\* ---------------------------------------------------------------------
\* C17: when the agent call for one sheet fails after its retries, the
\* dual-agent parse_workbook is not aborted: it goes on with the loop over
\* the sheets (and so still returns the other sheets' building records).
\* ---------------------------------------------------------------------
C17_PartialFailureIsolation ==
    [][(parser = "ai" /\ pc \in {"call_a", "call_b"} /\ pc' \notin {"call_b", "merge"})
         => pc' = "loop"]_vars


\* ---------------------------------------------------------------------
\* C18: every candidate record that call_sov_sheet_agent returns has only
\* keys of the canonical schema (BUILDING_FIELDS): a key outside it in the
\* service's response is removed before the adapter returns.
\* ---------------------------------------------------------------------
C18_AdapterSchemaStripping ==
    agent_pc = "returned" => ~HasOffSchemaKey(agent_out)


\* ---------------------------------------------------------------------
\* C19: a sheet whose sheet_state is not "visible" contributes nothing to
\* the output of parse_workbook, in the dual-agent path (no record comes
\* from it, no agent is asked about it) and in the heuristic path (no
\* BuildingRecord and so no PropertyRecord is found in it).
\* ---------------------------------------------------------------------
C19_HiddenSheetsSkipped ==
    /\ \A i \in 1..Len(origin) : sheet_log[origin[i]].visible
    /\ \A i \in 1..Len(sheet_log) :
          ~sheet_log[i].visible => sheet_log[i] = HiddenEntry
    /\ \A i \in 1..Len(ws_log) :
          ws_log[i].sheet_state # "visible" => ws_log[i].found = 0


FuzzyValues ==
    { None, EmptyStr, NullStr,
      StrV(Txt.addr_full), StrV(Txt.addr_plain), StrV(Txt.addr_null),
      StrV(Txt.addr), StrV(Txt.addr_lc), StrV(Txt.addr_long),
      StrV(Txt.scw), StrV(Txt.scw_wide), StrV(Txt.phoenix),
      StrV(Txt.dash), StrV(Txt.en_range), StrV(Txt.ull), StrV(Txt.nullx),
      IntV(1000), FloatV(100054), FloatV(99996), IntV(5), StrV(Txt.n5) }

\* an address field, the unit range, and a field of neither kind
FuzzyKeys == {"location_address", "units_per_building", "building_number"}

InitFuzzy ==
    /\ WbIdle
    /\ in_key \in FuzzyKeys
    /\ in_v1 \in FuzzyValues
    /\ in_v2 \in FuzzyValues
    /\ in_a = NoResponse
    /\ in_b = NoResponse
    /\ FnNoResult
    /\ step = "ready"

FuzzyEqual ==
    /\ step = "ready"
    /\ out_equal' = _fuzzy_equal(in_v1, in_v2)
    /\ step' = "_fuzzy_equal"
    /\ UNCHANGED <<wbVars, retryVars, in_key, in_v1, in_v2, in_a, in_b, out_field, out_merged>>

ChooseRicher ==
    /\ step = "ready"
    /\ out_field' = [value |-> choose_richer_value(in_key, in_v1, in_v2), mismatch |-> FALSE]
    /\ step' = "choose_richer_value"
    /\ UNCHANGED <<wbVars, retryVars, in_key, in_v1, in_v2, in_a, in_b, out_equal, out_merged>>

NextFuzzy == FuzzyEqual \/ ChooseRicher

SpecFuzzy == InitFuzzy /\ [][NextFuzzy]_vars

\* ---------------------------------------------------------------------
\* C21: two non-null values are fuzzy-equal when their address-normalized
\* forms (whitespace collapsed, dashes unified, lowercased, trailing
\* punctuation stripped) are identical, or when one form, after the text
\* "null" and the commas are removed, is a substring of the other; the two
\* spellings of "13361 W Aleppo, Sun City West, AZ 85375" are equal.
\* ---------------------------------------------------------------------
SameAddressForm(a, b) == normalize_address(a) = normalize_address(b)

OneInsideOther(a, b) ==
    LET ca == CleanNull(normalize_address(a))
        cb == CleanNull(normalize_address(b))
    IN Contains(ca, cb) \/ Contains(cb, ca)

C21_AddressFuzzyEquality ==
    (step = "_fuzzy_equal" /\ ~IsNone(in_v1) /\ ~IsNone(in_v2)) =>
        /\ (SameAddressForm(in_v1, in_v2) \/ OneInsideOther(in_v1, in_v2)) => out_equal
        /\ ({in_v1, in_v2} = {StrV(Txt.addr_full), StrV(Txt.addr_plain)}) => out_equal

\* the two spellings of the full address were compared and found equal
C21_Witness ==
    /\ step = "_fuzzy_equal"
    /\ in_v1 = StrV(Txt.addr_full)
    /\ in_v2 = StrV(Txt.addr_plain)
    /\ out_equal

\* a street address inside its longer form
C21_SubstringCase ==
    /\ step = "_fuzzy_equal"
    /\ in_v1 = StrV(Txt.addr_long)
    /\ in_v2 = StrV(Txt.addr_lc)
    /\ ~SameAddressForm(in_v1, in_v2)
    /\ out_equal


\* ---------------------------------------------------------------------
\* C27: fuzzy equality is symmetric: _fuzzy_equal(a, b) and _fuzzy_equal(b, a)
\* are the same for all values a and b, numbers on either side of 1000
\* included.
\* ---------------------------------------------------------------------
C27_FuzzySymmetry ==
    step = "_fuzzy_equal" => out_equal = _fuzzy_equal(in_v2, in_v1)


\* ---------------------------------------------------------------------
\* C22: detect_header_row scores a row +2 per string cell that is a header
\* synonym after normalization and +1 per other string cell that contains a
\* keyword; it reports the first of the rows with the highest score; if that
\* score is below 2 it reports no header and the sheet yields no
\* BuildingRecord.
\* ---------------------------------------------------------------------
SynonymCells(row) ==
    {c \in 1..Len(row) : IsText(row[c]) /\ HasKey(BUILDING_HEADER_MAP, normalize_header(row[c].s))}

KeywordCells(row) ==
    {c \in 1..Len(row) \ SynonymCells(row) :
        IsText(row[c]) /\ \E k \in HEADER_KEYWORDS : Contains(normalize_header(row[c].s), k)}

HeaderScore(row) == 2 * Cardinality(SynonymCells(row)) + Cardinality(KeywordCells(row))

\* the score of every row of every worksheet, worked out once
HeaderScores == [ws \in Sheets |-> [r \in 1..Len(ws.rows) |-> HeaderScore(ws.rows[r])]]

C22_HeaderDetection ==
    \A i \in 1..Len(ws_log) :
        LET score == HeaderScores[ws_log[i].ws]
            h == ws_log[i].header
        IN IF \A r \in DOMAIN score : score[r] < 2
           THEN h = NoHeader /\ ws_log[i].found = 0
           ELSE /\ h \in DOMAIN score
                /\ \A r \in DOMAIN score : score[r] <= score[h]
                /\ \A r \in 1..(h - 1) : score[r] < score[h]

\* two rows share the highest score and the earlier one is the header
C22_Witness ==
    \E i \in 1..Len(ws_log) :
        LET score == HeaderScores[ws_log[i].ws]
            h == ws_log[i].header
        IN /\ h \in DOMAIN score
           /\ h > 1
           /\ \E r \in (h + 1)..Len(score) : score[r] = score[h]
           /\ ws_log[i].found > 0

\* a sheet whose best row scores 1: no header, no record
C22_BelowThreshold ==
    \E i \in 1..Len(ws_log) :
        /\ ws_log[i].header = NoHeader
        /\ \E r \in DOMAIN HeaderScores[ws_log[i].ws] : HeaderScores[ws_log[i].ws][r] = 1


\* ---------------------------------------------------------------------
\* C23: in extract_property_info the first successful write of a field
\* wins: a field holds what the first label match in scan order wrote, later
\* label matches for it are ignored, the value-driven second pass fills a
\* field only if the whole first pass left it unset, and a field no label
\* writes keeps the value it started with (None, or for source_file,
\* sheet_name and number_of_buildings what parse_workbook passed in).
\* ---------------------------------------------------------------------
\* what _set_property_value stores for a field from a raw value, None if nothing
Written(f, raw) == Get(_set_property_value([x \in {f} |-> None], f, raw), f)

ScanRows(rows) == Min(Len(rows), MAX_SCAN_ROWS)
ScanCols(rows) == Min(Len(rows[1]), MAX_SCAN_COLS)
CellRow(rows, k) == ((k - 1) \div ScanCols(rows)) + 1
CellCol(rows, k) == ((k - 1) % ScanCols(rows)) + 1

\* what the label at cell k would write for field f, None if it writes nothing
LabelWrite(rows, f, k) ==
    LET r == CellRow(rows, k)
        c == CellCol(rows, k)
    IN IF PropertyTarget(rows[r][c]) # f THEN None
       ELSE Written(f, FirstNeighbour(rows, r, c, ScanRows(rows), ScanCols(rows)))

\* what the numeric-like cell k under a label would write for field f
ValueWrite(rows, f, k) ==
    LET r == CellRow(rows, k)
        c == CellCol(rows, k)
    IN IF r < 2 \/ IsBlank(rows[r][c]) THEN None
       ELSE IF ~IsNumericLike(rows[r][c]) \/ PropertyTarget(rows[r - 1][c]) # f THEN None
       ELSE Written(f, rows[r][c])

LabelWrites(rows, f) ==
    {k \in 1..(ScanRows(rows) * ScanCols(rows)) : ~IsNone(LabelWrite(rows, f, k))}
ValueWrites(rows, f) ==
    {k \in 1..(ScanRows(rows) * ScanCols(rows)) : ~IsNone(ValueWrite(rows, f, k))}

PresetFields == {"source_file", "sheet_name", "number_of_buildings"}

FirstWrite(rows, f) ==
    IF LabelWrites(rows, f) # {} THEN LabelWrite(rows, f, FirstOf(LabelWrites(rows, f)))
    ELSE IF ValueWrites(rows, f) # {} THEN ValueWrite(rows, f, FirstOf(ValueWrites(rows, f)))
    ELSE None

\* the fields some label cell of the scanned region names
LabelledFields(rows) ==
    {PropertyTarget(rows[r][c]) : r \in 1..ScanRows(rows), c \in 1..ScanCols(rows)} \ {NoField}

\* per worksheet, the value expected of every field that is not preset,
\* worked out once
FirstWrites ==
    [ws \in Sheets |->
        [f \in PropertyFieldSet \ PresetFields |->
            IF f \in LabelledFields(ws.rows) THEN FirstWrite(ws.rows, f) ELSE None]]

C23_FirstWriteWins ==
    \A i \in 1..Len(ws_log) :
        ws_log[i].found > 0 =>
            /\ DOMAIN ws_log[i].prop = PropertyFieldSet
            /\ \A f \in PropertyFieldSet \ PresetFields :
                  ws_log[i].prop[f] = FirstWrites[ws_log[i].ws][f]
            /\ ws_log[i].prop["source_file"] = StrV(Txt.file)
            /\ ws_log[i].prop["sheet_name"] = ws_log[i].ws.title

\* a field with two label matches holds the first one's value, and a field set
\* by a label is not replaced by the value found under that label
C23_Witness ==
    \E i \in 1..Len(ws_log) :
        /\ ws_log[i].found > 0
        /\ Cardinality(LabelWrites(ws_log[i].ws.rows, "roof_type")) >= 2
        /\ ws_log[i].prop["roof_type"] = StrV(Txt.tile)
        /\ LabelWrites(ws_log[i].ws.rows, "total_insurable_value") # {}
        /\ ValueWrites(ws_log[i].ws.rows, "total_insurable_value") # {}
        /\ ws_log[i].prop["total_insurable_value"] = FloatV(700)

\* a field whose label match wrote nothing is filled by the second pass
C23_SecondPass ==
    \E i \in 1..Len(ws_log) :
        /\ ws_log[i].found > 0
        /\ LabelWrites(ws_log[i].ws.rows, "total_insurable_value") = {}
        /\ ws_log[i].prop["total_insurable_value"] = FloatV(124198900)


\* ---------------------------------------------------------------------
\* C24: for two non-null values choose_richer_value returns the value whose
\* string form is strictly longer, and agent A's value when the two string
\* forms are equally long: for the address fields, for every field other
\* than units_per_building, and for units_per_building when both values or
\* neither value is a range.
\* ---------------------------------------------------------------------
StrLen(v) == Len(PyStr(v))

C24_RicherTieBreak ==
    (/\ step = "choose_richer_value"
     /\ ~IsNone(in_v1) /\ ~IsNone(in_v2)
     /\ (in_key = "units_per_building" => (IsRangeText(in_v1) <=> IsRangeText(in_v2))))
    => /\ StrLen(in_v1) > StrLen(in_v2) => out_field.value = in_v1
       /\ StrLen(in_v2) > StrLen(in_v1) => out_field.value = in_v2
       /\ StrLen(in_v1) = StrLen(in_v2) => out_field.value = in_v1

\* two different values of the same length: agent A's is returned
C24_Witness ==
    /\ step = "choose_richer_value"
    /\ in_key = "location_address"
    /\ in_v1 = StrV(Txt.addr_lc)
    /\ in_v2 = StrV(Txt.addr)
    /\ out_field.value = in_v1

\* units_per_building, two ranges: the longer one is returned
C24_TwoRanges ==
    /\ step = "choose_richer_value"
    /\ in_key = "units_per_building"
    /\ in_v1 = StrV(Txt.dash)
    /\ in_v2 = StrV(Txt.addr_null)
    /\ out_field.value = in_v2


\* ---------------------------------------------------------------------
\* C25: the value the merge writes for a field is identical to the first
\* agent's value or to the second agent's value, and it is null only when
\* both agents' values are null.
\* ---------------------------------------------------------------------
C25_MergeKeepsValues ==
    step = "done" =>
        /\ out_field.value \in {in_v1, in_v2}
        /\ IsNone(out_field.value) => (IsNone(in_v1) /\ IsNone(in_v2))

\* only the second agent gave a value, and it is the merged value
C25_Witness ==
    /\ step = "done"
    /\ IsNone(in_v1)
    /\ in_v2 = StrV(Txt.addr_long)
    /\ out_field.value = in_v2

\* two values that differ and are not fuzzy-equal: one of them is written
C25_Disagreement ==
    /\ step = "done"
    /\ out_field.mismatch
    /\ in_v1 # in_v2
    /\ out_field.value = in_v2

\* ---------------------------------------------------------------------
\* C26: if one agent gives the empty string for a field and the other a
\* non-empty value, the merged value is the non-empty value, whichever
\* agent gave it.
\* ---------------------------------------------------------------------
NonEmpty(v) == ~IsNone(v) /\ v # EmptyStr

C26_EmptyNeverDisplaces ==
    step = "done" =>
        /\ (in_v1 = EmptyStr /\ NonEmpty(in_v2)) => out_field.value = in_v2
        /\ (NonEmpty(in_v1) /\ in_v2 = EmptyStr) => out_field.value = in_v1


\* ---------------------------------------------------------------------
\* C28: when the dual-agent parse_workbook has returned, no non-numeric
\* field of a BuildingRecord holds the empty string or the text "null":
\* such placeholders have become None, whether they came from a building
\* sheet's candidate or from the metadata of a general sheet.
\* ---------------------------------------------------------------------
C28_NoPlaceholderText ==
    (parser = "ai" /\ pc = "done") =>
        \A i \in 1..Len(all_buildings) :
            \A f \in BuildingFieldSet \ NUMERIC_BUILDING_FIELDS :
                all_buildings[i][f] \notin {EmptyStr, NullStr}


\* ---------------------------------------------------------------------
\* C29: the inheritance step of the dual-agent parse_workbook changes only
\* the five location fields: it adds, removes and reorders no record, and
\* building_number, units_per_building, replacement_cost_tiv, num_units,
\* livable_sq_ft and garage_sq_ft of every record are as they were before it.
\* ---------------------------------------------------------------------
LocationFields ==
    {"location_full_address", "location_address", "location_city", "location_state",
     "location_zip"}

C29_InheritanceFrame ==
    (parser = "ai" /\ pc = "done") =>
        /\ Len(all_buildings) = Len(pre_inherit)
        /\ \A i \in 1..Len(all_buildings) :
              /\ DOMAIN all_buildings[i] = DOMAIN pre_inherit[i]
              /\ \A f \in DOMAIN all_buildings[i] \ LocationFields :
                    all_buildings[i][f] = pre_inherit[i][f]

\* the inheritance step filled a location field of a record without a
\* building number, and the record still has none
C29_Witness ==
    /\ parser = "ai"
    /\ pc = "done"
    /\ \E i \in 1..Len(all_buildings) :
          /\ all_buildings[i] # pre_inherit[i]
          /\ IsNone(all_buildings[i]["building_number"])

\* two records, both changed by the inheritance step
C29_TwoRecords ==
    /\ parser = "ai"
    /\ pc = "done"
    /\ Len(all_buildings) >= 2
    /\ \A i \in 1..Len(all_buildings) : all_buildings[i] # pre_inherit[i]


\* ---------------------------------------------------------------------
\* C30: the heuristic parse_workbook makes a PropertyRecord only for a sheet
\* in which it found at least one BuildingRecord, and the record's
\* number_of_buildings is the number of distinct building_number values
\* among that sheet's BuildingRecords, never a value found next to a
\* "number of buildings" label.
\* ---------------------------------------------------------------------
DistinctNumbers(records) ==
    Cardinality({records[j]["building_number"] : j \in 1..Len(records)})

\* the values found beside or under a label that names number_of_buildings
CountLabelValues ==
    [ws \in Sheets |->
        {LabelWrite(ws.rows, "number_of_buildings", k) :
            k \in LabelWrites(ws.rows, "number_of_buildings")}]

C30_PropertyCount ==
    /\ Len(property_records) = Cardinality({i \in 1..Len(ws_log) : ws_log[i].found > 0})
    /\ \A i \in 1..Len(ws_log) :
          IF ws_log[i].found = 0 THEN ws_log[i].prop = EmptyDict
          ELSE /\ ws_log[i].prop \in {property_records[j] : j \in 1..Len(property_records)}
               /\ ws_log[i].prop["number_of_buildings"] = IntV(DistinctNumbers(ws_log[i].records))

\* three BuildingRecords with two distinct numbers under a label that says 9
C30_Witness ==
    \E i \in 1..Len(ws_log) :
        /\ ws_log[i].found = 3
        /\ FloatV(900) \in CountLabelValues[ws_log[i].ws]
        /\ ws_log[i].prop["number_of_buildings"] = IntV(2)

\* a sheet without BuildingRecords was read and no PropertyRecord was made
C30_NoRecord ==
    /\ pc = "done"
    /\ property_records = << >>
    /\ \E i \in 1..Len(ws_log) : ws_log[i].header # NoHeader

====
